---------------------------- MODULE Spec2Model ----------------------------
(***************************************************************************)
(* Flight-training weather monitor: the safety evaluator and scorer        *)
(* (core/src/weather/safety.rs), the reschedule-suggestion cache and       *)
(* generator (core/src/ai/reschedule.rs) and the monitoring scheduler      *)
(* (server/src/scheduler.rs).                                              *)
(*                                                                         *)
(* Units.  Visibility and wind are f64 in the source; here they are        *)
(* integers counting tenths (visibility 4.9 mi is 49, wind 12.1 kt is      *)
(* 121).  Ceilings are whole feet.  Scores are f32 in the source; here     *)
(* they are exact integers counting 1/7500 of a score point, the smallest  *)
(* unit in which every penalty of calculate_weather_score is whole on      *)
(* this grid.  Option<T> is a sequence of length 0 (None) or 1 (Some).     *)
(* A String is a sequence of one-character strings.  DateTime<Utc> is a    *)
(* number of hours, except the cache clock, which counts half hours.       *)
(***************************************************************************)
EXTENDS Integers, Sequences, FiniteSets, TLC

-----------------------------------------------------------------------------
(* Option<T> *)

None == << >>

Some(x) == << x >>

IsSome(o) == Len(o) = 1

Unwrap(o) == o[1]

Min(a, b) == IF a < b THEN a ELSE b

Max(a, b) == IF a > b THEN a ELSE b

-----------------------------------------------------------------------------
(* core/src/models.rs, core/src/weather/api.rs *)

\* enum TrainingLevel
TrainingLevel == { "StudentPilot", "PrivatePilot", "InstrumentRated" }

\* struct Location, as the (lat, lon) pair it is used for
Location == { "KTOA", "KSMO" }

\* struct WeatherData, less temperature_f, which nothing modelled reads.
\* Every record of the module lists its fields in one fixed order, the
\* struct's; a sample handed to the evaluator alone carries no conditions
\* and no date_time.
WeatherDataType ==
    [ visibility_miles : Nat, wind_speed_knots : Nat, ceiling_ft : Seq(Nat),
      conditions : Seq(STRING), has_thunderstorms : BOOLEAN,
      has_icing : BOOLEAN, date_time : Nat ]

\* (bool, Option<String>), the result of is_flight_safe
SafetyType == [ is_safe : BOOLEAN, reason : Seq(Seq(STRING)) ]

-----------------------------------------------------------------------------
VARIABLES
    level,              \* training level handed to the evaluator and the scorer
    weather,            \* weather sample handed to the evaluator and the scorer
    minimums,           \* WeatherMinimum row handed to the evaluator
    safety,             \* Option<(bool, Option<String>)>: result of is_flight_safe
    score,              \* Option<f32>: result of calculate_weather_score
    cache,              \* AiCache::cache: key -> Option<(RescheduleResponse, timestamp)>
    now,                \* Utc::now(), in ticks
    lastSet,            \* history: per key, the last (response, time) written
    lastGet,            \* the get that has just returned: Option<(key, result)>
    request,            \* the arguments of the last suggestion call
    response,           \* the result of the last suggestion call and its path
    cleanup,            \* the cache cleanup task: the instance it holds, its last sweep
    bookings,           \* table bookings: id -> row
    students,           \* table students: id -> Option<row>
    reschedule_events,  \* table reschedule_events, in insertion order
    weather_alerts,     \* table weather_alerts, in insertion order
    published,          \* messages accepted by notification_tx.send, in order
    receivers,          \* number of live receivers of the broadcast channel
    hourly,             \* the hourly job: check_all_flights and its position
    alerting,           \* the five-minute job: generate_weather_alerts and its position
    hourlyLog,          \* history: one entry per booking the hourly job handled
    parked,             \* a run of the hourly job waiting at an await while another runs
    alertLog,           \* history: one entry per booking the alert job handled
    fetch,              \* WeatherClient::retry_with_backoff and its position
    socket,             \* handle_socket: one WebSocket connection and its receiver
    patch               \* reschedule_booking: one PATCH request and its position

evalVars == << level, weather, minimums, safety, score >>

cacheVars == << cache, now, lastSet, lastGet, request, response, cleanup >>

dbVars == << bookings, students, reschedule_events, weather_alerts >>

hourlyVars == << hourly, hourlyLog, parked >>

alertVars == << alerting, alertLog >>

schedVars == << dbVars, published, receivers, hourlyVars, alertVars >>

ioVars == << fetch, socket, patch >>

vars == << evalVars, cacheVars, schedVars, ioVars >>


-----------------------------------------------------------------------------
(* Strings *)

RECURSIVE Concat(_)
\* [a, b, c].concat(): the pieces of a format! call, in order
Concat(pieces) ==
    IF pieces = << >> THEN << >>
    ELSE Head(pieces) \o Concat(Tail(pieces))

RECURSIVE Join(_, _)
\* Vec<String>::join(sep)
Join(strs, sep) ==
    IF strs = << >> THEN << >>
    ELSE IF Len(strs) = 1 THEN strs[1]
    ELSE strs[1] \o sep \o Join(Tail(strs), sep)

\* str::contains(pat)
Contains(s, pat) ==
    \E i \in 0..(Len(s) - Len(pat)) :
        \A j \in 1..Len(pat) : s[i + j] = pat[j]

DigitChar(d) ==
    << "0", "1", "2", "3", "4", "5", "6", "7", "8", "9" >>[d + 1]

RECURSIVE Digits(_)
\* decimal digits of a non-negative integer
Digits(n) ==
    IF n < 10 THEN << DigitChar(n) >>
    ELSE Digits(n \div 10) \o << DigitChar(n % 10) >>

\* format!("{:.1}", x) for x given in tenths
Fmt1(tenths) == Digits(tenths \div 10) \o << "." >> \o << DigitChar(tenths % 10) >>


-----------------------------------------------------------------------------
(* The texts of the program *)

\* the pieces of the reasons of is_flight_safe
SafetyText ==
    [
      \* "Thunderstorms present"
      thunderstorms_present |->
          << "T", "h", "u", "n", "d", "e", "r", "s", "t", "o", "r", "m", "s",
             " ", "p", "r", "e", "s", "e", "n", "t" >>,
      \* "Icing conditions present"
      icing_present |->
          << "I", "c", "i", "n", "g", " ", "c", "o", "n", "d", "i", "t", "i",
             "o", "n", "s", " ", "p", "r", "e", "s", "e", "n", "t" >>,
      \* "Visibility "
      visibility_is |->
          << "V", "i", "s", "i", "b", "i", "l", "i", "t", "y", " " >>,
      \* "mi below minimum "
      mi_below_minimum |->
          << "m", "i", " ", "b", "e", "l", "o", "w", " ", "m", "i", "n", "i",
             "m", "u", "m", " " >>,
      \* "mi for "
      mi_for |->
          << "m", "i", " ", "f", "o", "r", " " >>,
      \* "Wind speed "
      wind_speed_is |->
          << "W", "i", "n", "d", " ", "s", "p", "e", "e", "d", " " >>,
      \* "kt exceeds maximum "
      kt_exceeds_maximum |->
          << "k", "t", " ", "e", "x", "c", "e", "e", "d", "s", " ", "m", "a",
             "x", "i", "m", "u", "m", " " >>,
      \* "kt for "
      kt_for |->
          << "k", "t", " ", "f", "o", "r", " " >>,
      \* "Ceiling "
      ceiling_is |->
          << "C", "e", "i", "l", "i", "n", "g", " " >>,
      \* "ft below minimum "
      ft_below_minimum |->
          << "f", "t", " ", "b", "e", "l", "o", "w", " ", "m", "i", "n", "i",
             "m", "u", "m", " " >>,
      \* "ft for "
      ft_for |->
          << "f", "t", " ", "f", "o", "r", " " >>,
      \* "ft too low for student pilot (minimum 3000ft)"
      ft_too_low_student |->
          << "f", "t", " ", "t", "o", "o", " ", "l", "o", "w", " ", "f", "o",
             "r", " ", "s", "t", "u", "d", "e", "n", "t", " ", "p", "i", "l",
             "o", "t", " ", "(", "m", "i", "n", "i", "m", "u", "m", " ", "3",
             "0", "0", "0", "f", "t", ")" >>,
      \* "IMC conditions not allowed for this training level"
      imc_not_allowed |->
          << "I", "M", "C", " ", "c", "o", "n", "d", "i", "t", "i", "o", "n",
             "s", " ", "n", "o", "t", " ", "a", "l", "l", "o", "w", "e", "d",
             " ", "f", "o", "r", " ", "t", "h", "i", "s", " ", "t", "r", "a",
             "i", "n", "i", "n", "g", " ", "l", "e", "v", "e", "l" >>,
      \* "; "
      separator |->
          << ";", " " >> ]

\* the pieces of the reasons of the reschedule options
OptionText ==
    [
      \* "Good weather conditions: "
      good_weather |->
          << "G", "o", "o", "d", " ", "w", "e", "a", "t", "h", "e", "r", " ",
             "c", "o", "n", "d", "i", "t", "i", "o", "n", "s", ":", " " >>,
      \* " with "
      with_wind |->
          << " ", "w", "i", "t", "h", " " >>,
      \* "kt winds"
      kt_winds |->
          << "k", "t", " ", "w", "i", "n", "d", "s" >>,
      \* "Marginal conditions: "
      marginal |->
          << "M", "a", "r", "g", "i", "n", "a", "l", " ", "c", "o", "n", "d",
             "i", "t", "i", "o", "n", "s", ":", " " >>,
      \* "Please contact your instructor to schedule - limited weather data available"
      contact_instructor |->
          << "P", "l", "e", "a", "s", "e", " ", "c", "o", "n", "t", "a", "c",
             "t", " ", "y", "o", "u", "r", " ", "i", "n", "s", "t", "r", "u",
             "c", "t", "o", "r", " ", "t", "o", " ", "s", "c", "h", "e", "d",
             "u", "l", "e", " ", "-", " ", "l", "i", "m", "i", "t", "e", "d",
             " ", "w", "e", "a", "t", "h", "e", "r", " ", "d", "a", "t", "a",
             " ", "a", "v", "a", "i", "l", "a", "b", "l", "e" >>,
      \* "Clear skies with light winds, excellent training conditions"
      example_reason |->
          << "C", "l", "e", "a", "r", " ", "s", "k", "i", "e", "s", " ", "w",
             "i", "t", "h", " ", "l", "i", "g", "h", "t", " ", "w", "i", "n",
             "d", "s", ",", " ", "e", "x", "c", "e", "l", "l", "e", "n", "t",
             " ", "t", "r", "a", "i", "n", "i", "n", "g", " ", "c", "o", "n",
             "d", "i", "t", "i", "o", "n", "s" >> ]

\* WeatherData::conditions of the samples
Conditions ==
    [
      \* "Clear"
      clear_sky |->
          << "C", "l", "e", "a", "r" >>,
      \* "Windy"
      windy |->
          << "W", "i", "n", "d", "y" >>,
      \* "Thunderstorm"
      thunderstorm |->
          << "T", "h", "u", "n", "d", "e", "r", "s", "t", "o", "r", "m" >>,
      \* "Haze"
      haze |->
          << "H", "a", "z", "e" >>,
      \* "Fog"
      fog |->
          << "F", "o", "g" >> ]

-----------------------------------------------------------------------------
(* core/src/models.rs *)

\* format!("{:?}", training_level)
DebugLevel(training_level) ==
    CASE training_level = "StudentPilot" ->
            << "S", "t", "u", "d", "e", "n", "t", "P", "i", "l", "o", "t" >>
      [] training_level = "PrivatePilot" ->
            << "P", "r", "i", "v", "a", "t", "e", "P", "i", "l", "o", "t" >>
      [] training_level = "InstrumentRated" ->
            << "I", "n", "s", "t", "r", "u", "m", "e", "n", "t", "R", "a", "t",
               "e", "d" >>

-----------------------------------------------------------------------------
(* core/src/weather/safety.rs *)

\* the table with the PrivatePilot wind limit entered as 10.0 kt
default_weather_minimums_low_private_wind(training_level) ==
    CASE training_level = "StudentPilot" ->
            [ min_visibility_sm |-> 50, max_wind_speed_kt |-> 120,
              min_ceiling_ft |-> Some(3000), allow_imc |-> FALSE,
              no_thunderstorms |-> TRUE, no_icing |-> TRUE ]
      [] training_level = "PrivatePilot" ->
            [ min_visibility_sm |-> 30, max_wind_speed_kt |-> 100,
              min_ceiling_ft |-> Some(1000), allow_imc |-> FALSE,
              no_thunderstorms |-> TRUE, no_icing |-> TRUE ]
      [] training_level = "InstrumentRated" ->
            [ min_visibility_sm |-> 10, max_wind_speed_kt |-> 300,
              min_ceiling_ft |-> None, allow_imc |-> TRUE,
              no_thunderstorms |-> TRUE, no_icing |-> TRUE ]

\* default_weather_minimums().get(training_level); visibility and wind in tenths
default_weather_minimums(training_level) ==
    CASE training_level = "StudentPilot" ->
            [ min_visibility_sm |-> 50, max_wind_speed_kt |-> 120,
              min_ceiling_ft |-> Some(3000), allow_imc |-> FALSE,
              no_thunderstorms |-> TRUE, no_icing |-> TRUE ]
      [] training_level = "PrivatePilot" ->
            [ min_visibility_sm |-> 30, max_wind_speed_kt |-> 200,
              min_ceiling_ft |-> Some(1000), allow_imc |-> FALSE,
              no_thunderstorms |-> TRUE, no_icing |-> TRUE ]
      [] training_level = "InstrumentRated" ->
            [ min_visibility_sm |-> 10, max_wind_speed_kt |-> 300,
              min_ceiling_ft |-> None, allow_imc |-> TRUE,
              no_thunderstorms |-> TRUE, no_icing |-> TRUE ]

\* the keys of the three minimums.insert(..) calls, in source order
MinimumsKeys == << "StudentPilot", "PrivatePilot", "InstrumentRated" >>

\* the thunderstorm check skipped for rows that allow IMC
ThunderstormReasonImcExempt(w, m) ==
    IF m.no_thunderstorms /\ ~m.allow_imc /\ w.has_thunderstorms
    THEN << SafetyText.thunderstorms_present >> ELSE << >>

\* the blocks of is_flight_safe that push onto `reasons`, one per `if`
ThunderstormReason(w, m) ==
    IF m.no_thunderstorms /\ w.has_thunderstorms
    THEN << SafetyText.thunderstorms_present >> ELSE << >>

IcingReason(w, m) ==
    IF m.no_icing /\ w.has_icing
    THEN << SafetyText.icing_present >> ELSE << >>

\* the visibility check made only when a ceiling is reported
VisibilityReasonCeilingOnly(training_level, w, m) ==
    IF IsSome(w.ceiling_ft) /\ w.visibility_miles < m.min_visibility_sm
    THEN << Concat(<< SafetyText.visibility_is, Fmt1(w.visibility_miles),
                      SafetyText.mi_below_minimum, Fmt1(m.min_visibility_sm),
                      SafetyText.mi_for, DebugLevel(training_level) >>) >>
    ELSE << >>

VisibilityReason(training_level, w, m) ==
    IF w.visibility_miles < m.min_visibility_sm
    THEN << Concat(<< SafetyText.visibility_is, Fmt1(w.visibility_miles),
                      SafetyText.mi_below_minimum, Fmt1(m.min_visibility_sm),
                      SafetyText.mi_for, DebugLevel(training_level) >>) >>
    ELSE << >>

\* the wind check with the limit itself counted as exceeded
WindReasonAtLimit(training_level, w, m) ==
    IF w.wind_speed_knots >= m.max_wind_speed_kt
    THEN << Concat(<< SafetyText.wind_speed_is, Fmt1(w.wind_speed_knots),
                      SafetyText.kt_exceeds_maximum, Fmt1(m.max_wind_speed_kt),
                      SafetyText.kt_for, DebugLevel(training_level) >>) >>
    ELSE << >>

WindReason(training_level, w, m) ==
    IF w.wind_speed_knots > m.max_wind_speed_kt
    THEN << Concat(<< SafetyText.wind_speed_is, Fmt1(w.wind_speed_knots),
                      SafetyText.kt_exceeds_maximum, Fmt1(m.max_wind_speed_kt),
                      SafetyText.kt_for, DebugLevel(training_level) >>) >>
    ELSE << >>

\* the `None if !minimums.allow_imc` arm reporting the missing ceiling
CeilingReasonMissingReported(training_level, w, m) ==
    IF IsSome(m.min_ceiling_ft)
       /\ (IF IsSome(w.ceiling_ft)
           THEN Unwrap(w.ceiling_ft) < Unwrap(m.min_ceiling_ft)
           ELSE ~m.allow_imc)
    THEN << Concat(<< SafetyText.ceiling_is,
                      IF IsSome(w.ceiling_ft) THEN Digits(Unwrap(w.ceiling_ft))
                      ELSE << >>,
                      SafetyText.ft_below_minimum, Digits(Unwrap(m.min_ceiling_ft)),
                      SafetyText.ft_for, DebugLevel(training_level) >>) >>
    ELSE << >>

\* `None if !minimums.allow_imc => {}` and `_ => {}` push nothing
CeilingReason(training_level, w, m) ==
    IF IsSome(m.min_ceiling_ft)
       /\ IsSome(w.ceiling_ft)
       /\ Unwrap(w.ceiling_ft) < Unwrap(m.min_ceiling_ft)
    THEN << Concat(<< SafetyText.ceiling_is, Digits(Unwrap(w.ceiling_ft)),
                      SafetyText.ft_below_minimum, Digits(Unwrap(m.min_ceiling_ft)),
                      SafetyText.ft_for, DebugLevel(training_level) >>) >>
    ELSE << >>

\* the low-cloud check made for every training level
StudentFloorReasonAnyLevel(training_level, w) ==
    IF IsSome(w.ceiling_ft)
       /\ Unwrap(w.ceiling_ft) < 3000
    THEN << Concat(<< SafetyText.ceiling_is, Digits(Unwrap(w.ceiling_ft)),
                      SafetyText.ft_too_low_student >>) >>
    ELSE << >>

\* `if ceiling < 3000.0` for a StudentPilot, whatever the minimums say
StudentFloorReason(training_level, w) ==
    IF training_level = "StudentPilot"
       /\ IsSome(w.ceiling_ft)
       /\ Unwrap(w.ceiling_ft) < 3000
    THEN << Concat(<< SafetyText.ceiling_is, Digits(Unwrap(w.ceiling_ft)),
                      SafetyText.ft_too_low_student >>) >>
    ELSE << >>

\* `ceiling < 1000.0 || weather.visibility_miles < 3.0` (visibility in tenths
\* of a mile), looked at only when a ceiling is reported
ImcReason(w, m) ==
    IF ~m.allow_imc
       /\ IsSome(w.ceiling_ft)
       /\ (Unwrap(w.ceiling_ft) < 1000
           \/ w.visibility_miles < 30)
    THEN << SafetyText.imc_not_allowed >> ELSE << >>

\* the evaluator returning at the first violated rule
ReasonsFirstOnly(training_level, w, m) ==
    LET all == ThunderstormReason(w, m)
               \o IcingReason(w, m)
               \o VisibilityReason(training_level, w, m)
               \o WindReason(training_level, w, m)
               \o CeilingReason(training_level, w, m)
               \o StudentFloorReason(training_level, w)
               \o ImcReason(w, m)
    IN  IF all = << >> THEN all ELSE << Head(all) >>

\* let mut reasons = Vec::new(); ... reasons.push(...) in source order
Reasons(training_level, w, m) ==
    ThunderstormReason(w, m)
    \o IcingReason(w, m)
    \o VisibilityReason(training_level, w, m)
    \o WindReason(training_level, w, m)
    \o CeilingReason(training_level, w, m)
    \o StudentFloorReason(training_level, w)
    \o ImcReason(w, m)

\* is_flight_safe(training_level, weather, minimums) -> (bool, Option<String>)
is_flight_safe(training_level, w, m) ==
    LET reasons == Reasons(training_level, w, m)
    IN  IF reasons = << >>
        THEN [ is_safe |-> TRUE, reason |-> None ]
        ELSE [ is_safe |-> FALSE, reason |-> Some(Join(reasons, SafetyText.separator)) ]

PERFECT_SCORE == 10

THUNDERSTORM_PENALTY == 5

ICING_PENALTY == 3

IDEAL_VISIBILITY_MI == 10

VISIBILITY_PENALTY_FACTOR == 2

CALM_WIND_KT == 5

MAX_WIND_PENALTY_KT == 15

WIND_PENALTY_FACTOR == 2

IDEAL_CEILING_FT == 5000

CEILING_PENALTY_FACTOR == 2

STUDENT_HIGH_WIND_THRESHOLD_KT == 10

STUDENT_HIGH_WIND_PENALTY == 2

\* score units per score point: every quotient below is exact in this unit
ScoreUnit == 75 * 100

\* tenths per mile or knot
Tenths(x) == x * 10

\* the running score with the student high-wind deduction added instead of
\* subtracted
RawScoreHighWindBonus(training_level, w) ==
    LET thunderstorm ==
            IF w.has_thunderstorms THEN THUNDERSTORM_PENALTY * ScoreUnit ELSE 0
        icing ==
            IF w.has_icing THEN ICING_PENALTY * ScoreUnit ELSE 0
        visibility ==
            IF w.visibility_miles < Tenths(IDEAL_VISIBILITY_MI)
            THEN ((Tenths(IDEAL_VISIBILITY_MI) - w.visibility_miles)
                    * VISIBILITY_PENALTY_FACTOR * ScoreUnit)
                 \div Tenths(IDEAL_VISIBILITY_MI)
            ELSE 0
        wind ==
            IF w.wind_speed_knots > Tenths(CALM_WIND_KT)
            THEN (Min(w.wind_speed_knots - Tenths(CALM_WIND_KT),
                      Tenths(MAX_WIND_PENALTY_KT))
                    * WIND_PENALTY_FACTOR * ScoreUnit)
                 \div Tenths(MAX_WIND_PENALTY_KT)
            ELSE 0
        ceiling ==
            IF IsSome(w.ceiling_ft) /\ Unwrap(w.ceiling_ft) < IDEAL_CEILING_FT
            THEN ((IDEAL_CEILING_FT - Unwrap(w.ceiling_ft))
                    * CEILING_PENALTY_FACTOR * ScoreUnit)
                 \div IDEAL_CEILING_FT
            ELSE 0
        high_wind ==
            IF training_level = "StudentPilot"
               /\ w.wind_speed_knots > Tenths(STUDENT_HIGH_WIND_THRESHOLD_KT)
            THEN STUDENT_HIGH_WIND_PENALTY * ScoreUnit
            ELSE 0
    IN  PERFECT_SCORE * ScoreUnit
            - thunderstorm - icing - visibility - wind - ceiling + high_wind

\* the running `score` of calculate_weather_score before the final clamp
RawScore(training_level, w) ==
    LET thunderstorm ==
            IF w.has_thunderstorms THEN THUNDERSTORM_PENALTY * ScoreUnit ELSE 0
        icing ==
            IF w.has_icing THEN ICING_PENALTY * ScoreUnit ELSE 0
        visibility ==
            IF w.visibility_miles < Tenths(IDEAL_VISIBILITY_MI)
            THEN ((Tenths(IDEAL_VISIBILITY_MI) - w.visibility_miles)
                    * VISIBILITY_PENALTY_FACTOR * ScoreUnit)
                 \div Tenths(IDEAL_VISIBILITY_MI)
            ELSE 0
        wind ==
            IF w.wind_speed_knots > Tenths(CALM_WIND_KT)
            THEN (Min(w.wind_speed_knots - Tenths(CALM_WIND_KT),
                      Tenths(MAX_WIND_PENALTY_KT))
                    * WIND_PENALTY_FACTOR * ScoreUnit)
                 \div Tenths(MAX_WIND_PENALTY_KT)
            ELSE 0
        ceiling ==
            IF IsSome(w.ceiling_ft) /\ Unwrap(w.ceiling_ft) < IDEAL_CEILING_FT
            THEN ((IDEAL_CEILING_FT - Unwrap(w.ceiling_ft))
                    * CEILING_PENALTY_FACTOR * ScoreUnit)
                 \div IDEAL_CEILING_FT
            ELSE 0
        high_wind ==
            IF training_level = "StudentPilot"
               /\ w.wind_speed_knots > Tenths(STUDENT_HIGH_WIND_THRESHOLD_KT)
            THEN STUDENT_HIGH_WIND_PENALTY * ScoreUnit
            ELSE 0
    IN  PERFECT_SCORE * ScoreUnit
            - thunderstorm - icing - visibility - wind - ceiling - high_wind

\* the clamp without its lower bound
ClampUpperOnly(s) == Min(s, PERFECT_SCORE * ScoreUnit)

\* score.max(0.0).min(PERFECT_SCORE)
Clamp(s) == Min(Max(s, 0), PERFECT_SCORE * ScoreUnit)

\* calculate_weather_score(training_level, weather) -> f32
calculate_weather_score(training_level, w) ==
    Clamp(RawScore(training_level, w))

-----------------------------------------------------------------------------
(* Inputs of the evaluator and the scorer *)

\* visibility (tenths of a mile): 0 and both sides of 1.0, 3.0, 5.0, 10.0
VisibilityGrid == { 0, 10, 29, 30, 49, 50, 100 }

\* wind (tenths of a knot): calm and both sides of 10, 12, 20, 30
WindGrid == { 0, 100, 101, 120, 121, 200, 201, 300, 301 }

\* ceiling (feet): absent, 0 and both sides of 1000, 3000, 5000
CeilingGrid == { None, Some(0), Some(999), Some(1000), Some(2999), Some(3000),
                 Some(5000) }

WeatherData(vis, wind, ceiling, thunderstorms, icing) ==
    [ visibility_miles |-> vis, wind_speed_knots |-> wind,
      ceiling_ft |-> ceiling, has_thunderstorms |-> thunderstorms,
      has_icing |-> icing ]

WeatherSamples ==
    { WeatherData(v, w, c, t, i) :
        v \in VisibilityGrid, w \in WindGrid, c \in CeilingGrid,
        t \in BOOLEAN, i \in BOOLEAN }

\* a WeatherMinimum row other than the defaults: IMC disallowed, no ceiling
\* floor, thunderstorms and icing tolerated
CustomMinimums ==
    [ min_visibility_sm |-> 10, max_wind_speed_kt |-> 300,
      min_ceiling_ft |-> None, allow_imc |-> FALSE,
      no_thunderstorms |-> FALSE, no_icing |-> FALSE ]

EvalInputs ==
    /\ level \in TrainingLevel
    /\ weather \in WeatherSamples
    /\ minimums \in { default_weather_minimums(level), CustomMinimums }
    /\ safety = None
    /\ score = None

\* a caller invokes is_flight_safe(&level, &weather, minimums)
Evaluate ==
    /\ safety = None
    /\ safety' = Some(is_flight_safe(level, weather, minimums))
    /\ UNCHANGED << level, weather, minimums, score, cacheVars, schedVars, ioVars >>

\* a caller invokes calculate_weather_score(&level, &weather)
Score ==
    /\ score = None
    /\ score' = Some(calculate_weather_score(level, weather))
    /\ UNCHANGED << level, weather, minimums, safety, cacheVars, schedVars, ioVars >>


-----------------------------------------------------------------------------
(* core/src/ai/reschedule.rs: AiCache *)

\* clock ticks per hour: Utc::now() is read to the half hour
TicksPerHour == 2

\* ttl_hours: 6
TTL_HOURS == 6

\* Duration::num_hours(): whole hours, truncated
NumHours(ticks) == ticks \div TicksPerHour

\* the expiry test written with <= instead of <
FreshInclusive(timestamp, at) == NumHours(at - timestamp) <= TTL_HOURS

\* age < self.ttl_hours, age = now.signed_duration_since(timestamp).num_hours()
Fresh(timestamp, at) == NumHours(at - timestamp) < TTL_HOURS

\* AiCache::get(key) at time `at`: the entry is cloned out, the map is not changed
AiCacheGet(c, key, at) ==
    IF IsSome(c[key]) /\ Fresh(Unwrap(c[key])[2], at)
    THEN Some(Unwrap(c[key])[1])
    ELSE None

\* AiCache::set(key, response) at time `at`: cache.insert(key, (response, Utc::now()))
AiCacheSet(c, key, resp, at) ==
    [ c EXCEPT ![key] = Some(<< resp, at >>) ]

\* AiCache::clear_expired() at time `at`: cache.retain(age < ttl_hours)
AiCacheClearExpired(c, at) ==
    [ k \in DOMAIN c |->
        IF IsSome(c[k]) /\ Fresh(Unwrap(c[k])[2], at) THEN c[k] ELSE None ]

-----------------------------------------------------------------------------
(* core/src/ai/reschedule.rs: AiRescheduleClient *)

\* hours per day: chrono::Duration::days(n), with DateTime<Utc> counted in hours
HoursPerDay == 24

Booking(id, student_id, scheduled_date, departure_location, status) ==
    [ id |-> id, student_id |-> student_id, scheduled_date |-> scheduled_date,
      departure_location |-> departure_location, status |-> status ]

Student(id, name, training_level) ==
    [ training_level |-> training_level, id |-> id, name |-> name ]

\* the bookings suggestions are asked for
SuggestBookings ==
    { Booking("b1", "s1", 100, "KTOA", "Cancelled"),
      Booking("b2", "s2", 200, "KSMO", "Cancelled") }

\* the students of those bookings
SuggestStudents ==
    [ s \in { "s1", "s2" } |->
        IF s = "s1" THEN Student("s1", "Ann", "StudentPilot")
        ELSE Student("s2", "Bob", "InstrumentRated") ]

\* format!("{}_{}", booking.id, booking.scheduled_date.timestamp())
cache_key(booking) == << booking.id, booking.scheduled_date >>

CacheKeys == { cache_key(b) : b \in SuggestBookings }

\* forecast samples: safe for every level; too windy for a StudentPilot only;
\* unsafe for every level
ForecastSample(vis, wind, ceiling, conditions, thunderstorms, icing) ==
    [ visibility_miles |-> vis, wind_speed_knots |-> wind,
      ceiling_ft |-> ceiling, conditions |-> conditions,
      has_thunderstorms |-> thunderstorms, has_icing |-> icing ]

\* the samples: safe for every level; visibility exactly 5.0 mi, which
\* scores exactly 9.0; 15 kt wind, too much for a StudentPilot only; a
\* thunderstorm, unsafe for every level; visibility 0.5 mi
Samples ==
    [ clear_sky |-> ForecastSample(100, 50, Some(5000), Conditions.clear_sky, FALSE, FALSE),
      windy |-> ForecastSample(100, 150, Some(5000), Conditions.windy, FALSE, FALSE),
      thunderstorm |->
          ForecastSample(20, 250, Some(900), Conditions.thunderstorm, TRUE, FALSE),
      haze |-> ForecastSample(50, 50, Some(5000), Conditions.haze, FALSE, FALSE),
      fog |-> ForecastSample(5, 0, None, Conditions.fog, FALSE, FALSE) ]

\* the samples of the forecasts
ForecastKinds == { Samples.clear_sky, Samples.windy, Samples.thunderstorm }

\* a forecast: samples in chronological order, one per day from hour 24
ForecastOf(kinds) ==
    [ i \in 1..Len(kinds) |->
        [ visibility_miles |-> kinds[i].visibility_miles,
          wind_speed_knots |-> kinds[i].wind_speed_knots,
          ceiling_ft |-> kinds[i].ceiling_ft,
          conditions |-> kinds[i].conditions,
          has_thunderstorms |-> kinds[i].has_thunderstorms,
          has_icing |-> kinds[i].has_icing,
          date_time |-> i * HoursPerDay ] ]

RECURSIVE SeqsUpTo(_, _)
\* all sequences over S of length at most n
SeqsUpTo(S, n) ==
    IF n = 0 THEN { << >> }
    ELSE LET shorter == SeqsUpTo(S, n - 1)
         IN  shorter \cup { Append(s, x) : s \in { t \in shorter : Len(t) = n - 1 }, x \in S }

Forecasts(kinds, n) == { ForecastOf(s) : s \in SeqsUpTo(kinds, n) }

\* format!("{:.0}", x) for x given in tenths: nearest whole, ties to even
Fmt0Tenths(tenths) ==
    LET whole == tenths \div 10
        rest == tenths % 10
    IN  Digits(IF rest > 5 \/ (rest = 5 /\ whole % 2 = 1) THEN whole + 1 ELSE whole)

\* options.len() >= 3, 3 - options.len(), options.len() < 3
OPTIONS_WANTED == 3

GoodOption(training_level, w) ==
    [ date_time |-> w.date_time,
      reason |-> Concat(<< OptionText.good_weather, w.conditions, OptionText.with_wind,
                           Fmt0Tenths(w.wind_speed_knots), OptionText.kt_winds >>),
      weather_score |-> calculate_weather_score(training_level, w),
      instructor_available |-> TRUE ]

MarginalOption(training_level, w) ==
    [ date_time |-> w.date_time,
      reason |-> OptionText.marginal \o w.conditions,
      weather_score |-> calculate_weather_score(training_level, w),
      instructor_available |-> TRUE ]

\* the placeholder with the instructor assumed available, as in the other
\* two kinds of option
PlaceholderOptionAvailable(booking, days_ahead) ==
    [ date_time |-> booking.scheduled_date + days_ahead * HoursPerDay,
      reason |-> OptionText.contact_instructor,
      weather_score |-> 5 * ScoreUnit,
      instructor_available |-> TRUE ]

PlaceholderOption(booking, days_ahead) ==
    [ date_time |-> booking.scheduled_date + days_ahead * HoursPerDay,
      reason |-> OptionText.contact_instructor,
      weather_score |-> 5 * ScoreUnit,
      instructor_available |-> FALSE ]

RECURSIVE GoodWeatherPassWholeForecast(_, _, _, _)
\* the first loop without its take(14)
GoodWeatherPassWholeForecast(training_level, forecast, i, options) ==
    IF i > Len(forecast) \/ Len(options) >= OPTIONS_WANTED
    THEN options
    ELSE GoodWeatherPassWholeForecast(training_level, forecast, i + 1,
            IF is_flight_safe(training_level, forecast[i],
                              default_weather_minimums(training_level)).is_safe
            THEN Append(options, GoodOption(training_level, forecast[i]))
            ELSE options)

RECURSIVE GoodWeatherPass(_, _, _, _)
\* for weather in weather_forecast.iter().take(14) { if options.len() >= 3
\* { break; } if is_safe { options.push(..) } }
GoodWeatherPass(training_level, forecast, i, options) ==
    IF i > Len(forecast) \/ i > 14 \/ Len(options) >= OPTIONS_WANTED
    THEN options
    ELSE GoodWeatherPass(training_level, forecast, i + 1,
            IF is_flight_safe(training_level, forecast[i],
                              default_weather_minimums(training_level)).is_safe
            THEN Append(options, GoodOption(training_level, forecast[i]))
            ELSE options)

\* the marginal pass without its take(3 - options.len())
MarginalPassUnbounded(training_level, forecast, options) ==
    IF Len(options) < OPTIONS_WANTED
    THEN options \o [ j \in 1..Max(Len(forecast) - Len(options), 0) |->
                        MarginalOption(training_level, forecast[Len(options) + j]) ]
    ELSE options

\* if options.len() < 3 { for weather in
\* weather_forecast.iter().skip(options.len()).take(3 - options.len()) {..} }
MarginalPass(training_level, forecast, options) ==
    IF Len(options) < OPTIONS_WANTED
    THEN LET first == Len(options) + 1
             last == Min(Len(forecast), Len(options) + (OPTIONS_WANTED - Len(options)))
         IN  options \o [ j \in 1..Max(last - first + 1, 0) |->
                            MarginalOption(training_level, forecast[first + j - 1]) ]
    ELSE options

\* the placeholders numbered from 1, however many options there are already
PlaceholderPassFromOne(booking, options) ==
    options \o [ k \in 1..Max(OPTIONS_WANTED - Len(options), 0) |->
                    PlaceholderOption(booking, k) ]

RECURSIVE PlaceholderPass(_, _)
\* while options.len() < 3 { days_ahead = options.len() + 1; options.push(..) }
PlaceholderPass(booking, options) ==
    IF Len(options) < OPTIONS_WANTED
    THEN PlaceholderPass(booking,
            Append(options, PlaceholderOption(booking, Len(options) + 1)))
    ELSE options

\* Result<Vec<RescheduleOption>>
Ok(v) == [ ok |-> TRUE, value |-> v ]

Err(e) == [ ok |-> FALSE, value |-> e ]

\* generate_fallback_options(booking, student, weather_forecast, _)
generate_fallback_options(booking, student, weather_forecast) ==
    IF student.training_level \notin TrainingLevel
    THEN Err("No minimums for training level")
    ELSE Ok(PlaceholderPass(booking,
                MarginalPass(student.training_level, weather_forecast,
                    GoodWeatherPass(student.training_level, weather_forecast,
                                    1, << >>))))

\* what the generation service answers: generate_with_ai ends in an error of
\* one of `kinds`, or parses a reply holding up to max_options options
AiReplies(kinds, max_options) ==
    { [ kind |-> k, count |-> 0 ] : k \in kinds }
    \cup { [ kind |-> "parsed", count |-> n ] : n \in 0..max_options }

\* the options parsed from a well-formed reply holding n of them
AiOptions(n) ==
    [ i \in 1..n |->
        [ date_time |-> i * HoursPerDay + 14,
          reason |-> OptionText.example_reason,
          weather_score |-> (19 * ScoreUnit) \div 2,
          instructor_available |-> TRUE ] ]

\* generate_with_ai(..) -> Result<Vec<RescheduleOption>>
generate_with_ai(reply) ==
    CASE reply.kind = "transport_error" -> Err("Failed to call OpenAI API")
      [] reply.kind = "bad_status" -> Err("OpenAI API returned status")
      [] reply.kind = "bad_body" -> Err("Failed to parse OpenAI response")
      [] reply.kind = "no_choices" -> Err("No choices in OpenAI response")
      [] reply.kind = "bad_content" ->
            Err("Failed to parse AI response as RescheduleResponse")
      [] reply.kind = "parsed" -> Ok(AiOptions(reply.count))

\* the generator with `generate_with_ai(..).await?` in place of the match:
\* an error of the generation attempt is returned to the caller
generate_reschedule_options_propagating(c, at, booking, student, weather_forecast, reply) ==
    LET key == cache_key(booking)
        cached == AiCacheGet(c, key, at)
        ai == generate_with_ai(reply)
    IN  IF IsSome(cached) /\ Len(Unwrap(cached).options) >= OPTIONS_WANTED
        THEN [ result |-> Ok(Unwrap(cached).options), cache_after |-> c,
               path |-> "cache" ]
        ELSE IF ~ai.ok
        THEN [ result |-> ai, cache_after |-> c, path |-> "ai" ]
        ELSE IF Len(ai.value) >= OPTIONS_WANTED
        THEN [ result |-> Ok(ai.value),
               cache_after |-> AiCacheSet(c, key, [ options |-> ai.value ], at),
               path |-> "ai" ]
        ELSE [ result |-> generate_fallback_options(booking, student, weather_forecast),
               cache_after |-> c,
               path |-> "fallback" ]

\* the generator caching whatever it returns, the fallback's options included
generate_reschedule_options_caching_all(c, at, booking, student, weather_forecast, reply) ==
    LET key == cache_key(booking)
        cached == AiCacheGet(c, key, at)
        ai == generate_with_ai(reply)
        fallback == generate_fallback_options(booking, student, weather_forecast)
    IN  IF IsSome(cached) /\ Len(Unwrap(cached).options) >= OPTIONS_WANTED
        THEN [ result |-> Ok(Unwrap(cached).options), cache_after |-> c,
               path |-> "cache" ]
        ELSE IF ai.ok /\ Len(ai.value) >= OPTIONS_WANTED
        THEN [ result |-> Ok(ai.value),
               cache_after |-> AiCacheSet(c, key, [ options |-> ai.value ], at),
               path |-> "ai" ]
        ELSE [ result |-> fallback,
               cache_after |-> AiCacheSet(c, key, [ options |-> fallback.value ], at),
               path |-> "fallback" ]

\* the generator asking the generation service before it looks in the cache
generate_reschedule_options_ai_first(c, at, booking, student, weather_forecast, reply) ==
    LET key == cache_key(booking)
        cached == AiCacheGet(c, key, at)
        ai == generate_with_ai(reply)
    IN  IF ai.ok /\ Len(ai.value) >= OPTIONS_WANTED
        THEN [ result |-> Ok(ai.value),
               cache_after |-> AiCacheSet(c, key, [ options |-> ai.value ], at),
               path |-> "ai" ]
        ELSE IF IsSome(cached) /\ Len(Unwrap(cached).options) >= OPTIONS_WANTED
        THEN [ result |-> Ok(Unwrap(cached).options), cache_after |-> c,
               path |-> "cache" ]
        ELSE [ result |-> generate_fallback_options(booking, student, weather_forecast),
               cache_after |-> c,
               path |-> "fallback" ]

\* generate_reschedule_options(booking, student, weather_forecast, _) run
\* against cache c at time `at`: the result, the cache afterwards, and which
\* of the three paths produced the result
generate_reschedule_options(c, at, booking, student, weather_forecast, reply) ==
    LET key == cache_key(booking)
        cached == AiCacheGet(c, key, at)
        ai == generate_with_ai(reply)
    IN  IF IsSome(cached) /\ Len(Unwrap(cached).options) >= OPTIONS_WANTED
        THEN [ result |-> Ok(Unwrap(cached).options), cache_after |-> c,
               path |-> "cache" ]
        ELSE IF ai.ok /\ Len(ai.value) >= OPTIONS_WANTED
        THEN [ result |-> Ok(ai.value),
               cache_after |-> AiCacheSet(c, key, [ options |-> ai.value ], at),
               path |-> "ai" ]
        ELSE [ result |-> generate_fallback_options(booking, student, weather_forecast),
               cache_after |-> c,
               path |-> "fallback" ]

-----------------------------------------------------------------------------
(* server/src/scheduler.rs: the tables and the notification channel *)

\* scheduled_date BETWEEN now AND now + hours, with `at` in ticks
InWindow(scheduled_date, at, hours) ==
    /\ at <= scheduled_date * TicksPerHour
    /\ scheduled_date * TicksPerHour <= at + hours * TicksPerHour

RECURSIVE OrderByDate(_, _)
\* ORDER BY scheduled_date
OrderByDate(bs, ids) ==
    IF ids = { } THEN << >>
    ELSE LET first == CHOOSE i \in ids :
                        \A j \in ids : bs[i].scheduled_date <= bs[j].scheduled_date
         IN  << bs[first] >> \o OrderByDate(bs, ids \ { first })

\* SELECT id, student_id, scheduled_date, departure_location, status FROM
\* bookings WHERE status IN (..) AND scheduled_date BETWEEN ? AND ? ORDER BY
\* scheduled_date
SelectBookings(bs, statuses, at, hours) ==
    OrderByDate(bs, { i \in DOMAIN bs :
                        /\ bs[i].status \in statuses
                        /\ InWindow(bs[i].scheduled_date, at, hours) })

\* the UPDATE left out: the row keeps its status
UpdateStatusSkipped(bs, id, status) == bs

\* UPDATE bookings SET status = ? WHERE id = ?
UpdateStatus(bs, id, status) == [ bs EXCEPT ![id].status = status ]

\* json!({"type": "WEATHER_CONFLICT", ..})
ConflictNotification(booking, student, reason) ==
    [ type |-> "WEATHER_CONFLICT", booking_id |-> booking.id,
      \* format!("Flight cancelled: {}", reason.unwrap_or_default())
      message |-> << "F", "l", "i", "g", "h", "t", " ", "c", "a", "n", "c", "e",
                     "l", "l", "e", "d", ":", " " >>
                  \o (IF IsSome(reason) THEN Unwrap(reason) ELSE << >>),
      student_name |-> student.name, original_date |-> booking.scheduled_date ]

\* INSERT INTO reschedule_events (id, booking_id, original_date, new_date,
\* suggested_by): new_date is a placeholder, the original date again
SystemRescheduleEvent(booking) ==
    [ booking_id |-> booking.id, original_date |-> booking.scheduled_date,
      new_date |-> booking.scheduled_date, suggested_by |-> "SYSTEM" ]

\* the samples fetch_current_weather returns
SchedWeather == { Samples.haze, Samples.windy, Samples.thunderstorm, Samples.fog }

\* the sample with the time of the observation
Observed(sample, at) ==
    [ visibility_miles |-> sample.visibility_miles,
      wind_speed_knots |-> sample.wind_speed_knots,
      ceiling_ft |-> sample.ceiling_ft,
      conditions |-> sample.conditions,
      has_thunderstorms |-> sample.has_thunderstorms,
      has_icing |-> sample.has_icing,
      date_time |-> NumHours(at) ]

-----------------------------------------------------------------------------
(* server/src/scheduler.rs: check_all_flights and check_flight_safety *)

\* number of runs of the hourly job
MaxHourlyRuns == 1

\* a job closure whose error leaves the job stopped
AfterRunStopping(result) == IF result.ok THEN "idle" ELSE "stopped"

\* the job closures of start_weather_monitor: match .. { Ok(..) => info!,
\* Err(e) => error! }; the job waits for its next trigger either way
AfterRun(result) == "idle"

\* the hourly job between two runs
HourlyIdle ==
    [ pc |-> "idle", queue |-> << >>, current |-> None, pilot |-> None,
      unsafe_reason |-> None, total |-> 0, conflicts |-> 0, runs |-> 0,
      summary |-> None,
      \* the history entry of the booking the run is working on
      entry |-> 0,
      \* the triggers of the job still to come count up to this
      triggers |-> MaxHourlyRuns ]

\* history entry opened when check_flight_safety starts on a booking
HourlyEntry(booking) ==
    [ booking_id |-> booking.id,
      status_before |-> bookings[booking.id].status,
      events_before |-> Len(reschedule_events),
      published_before |-> Len(published),
      evaluated |-> None, updated |-> FALSE, outcome |-> "running",
      status_after |-> bookings[booking.id].status,
      events_after |-> Len(reschedule_events),
      published_after |-> Len(published) ]

\* the run's history entry, with what check_flight_safety returned and the
\* tables as they are then
HourlyClosed(log, outcome, bs, events, msgs) ==
    [ log EXCEPT ![hourly.entry].outcome = outcome,
                 ![hourly.entry].status_after = bs[log[hourly.entry].booking_id].status,
                 ![hourly.entry].events_after = Len(events),
                 ![hourly.entry].published_after = Len(msgs) ]

\* check_all_flights: the query; fetch_all(db).await? may fail
HourlyQuery ==
    /\ hourly.pc = "idle"
    /\ hourly.runs < hourly.triggers
    /\ \/ \E rows \in { SelectBookings(bookings, { "Scheduled" }, now,
                                       48) } :
            hourly' = [ hourly EXCEPT !.pc = "next", !.queue = rows,
                                      !.total = Len(rows), !.conflicts = 0,
                                      !.runs = @ + 1, !.summary = None ]
       \/ hourly' = [ hourly EXCEPT !.pc = AfterRun(Err("query failed")),
                                    !.runs = @ + 1,
                                    !.summary = Some(Err("query failed")) ]
    /\ UNCHANGED << dbVars, published, receivers, hourlyLog, parked, alertVars,
                    evalVars, cacheVars, ioVars >>

\* for booking in bookings { check_flight_safety(db, &booking, tx) .. }
HourlyTake ==
    /\ hourly.pc = "next"
    /\ hourly.queue # << >>
    /\ hourly' = [ hourly EXCEPT !.pc = "fetch_student", !.queue = Tail(@),
                                 !.current = Some(Head(hourly.queue)),
                                 !.pilot = None, !.unsafe_reason = None,
                                 !.entry = Len(hourlyLog) + 1 ]
    /\ hourlyLog' = Append(hourlyLog, HourlyEntry(Head(hourly.queue)))
    /\ UNCHANGED << dbVars, published, receivers, parked, alertVars, evalVars, cacheVars, ioVars >>

\* the loop calling `check_flight_safety(..).await?`: the first error ends
\* the run
HourlyErrorAborts ==
    /\ hourly' = [ hourly EXCEPT !.pc = "idle",
                                 !.summary = Some(Err("booking failed")) ]
    /\ hourlyLog' = HourlyClosed(hourlyLog, "error", bookings,
                                 reschedule_events, published)
    /\ UNCHANGED << dbVars, published >>

\* check_flight_safety returns Err(e): the match arm logs it, the loop goes on
HourlyError ==
    /\ hourly' = [ hourly EXCEPT !.pc = "next" ]
    /\ hourlyLog' = HourlyClosed(hourlyLog, "error", bookings,
                                 reschedule_events, published)
    /\ UNCHANGED << dbVars, published >>

\* SELECT .. FROM students WHERE id = ?  .fetch_one(db).await?
HourlyFetchStudent ==
    /\ hourly.pc = "fetch_student"
    /\ \/ /\ IsSome(students[Unwrap(hourly.current).student_id])
          /\ hourly' = [ hourly EXCEPT !.pc = "fetch_weather",
                            !.pilot = students[Unwrap(hourly.current).student_id] ]
          /\ UNCHANGED << dbVars, published, hourlyLog >>
       \/ HourlyError
    /\ UNCHANGED << receivers, parked, alertVars, evalVars, cacheVars, ioVars >>

\* WeatherClient::from_env()?, fetch_current_weather(lat, lon).await?, then
\* is_flight_safe(&student.training_level, &weather, student_minimums)
HourlyFetchWeather ==
    /\ hourly.pc = "fetch_weather"
    /\ \/ \E sample \in SchedWeather :
            \E verdict \in { is_flight_safe(
                                Unwrap(hourly.pilot).training_level,
                                Observed(sample, now),
                                default_weather_minimums(
                                    Unwrap(hourly.pilot).training_level)) } :
                /\ IF verdict.is_safe
                   THEN \* Ok(true)
                        /\ hourly' = [ hourly EXCEPT !.pc = "next" ]
                        /\ hourlyLog' = HourlyClosed(
                              [ hourlyLog EXCEPT ![hourly.entry].evaluated = Some(TRUE) ],
                              "safe", bookings, reschedule_events, published)
                   ELSE /\ hourly' = [ hourly EXCEPT !.pc = "cancel",
                                                     !.unsafe_reason = verdict.reason ]
                        /\ hourlyLog' =
                              [ hourlyLog EXCEPT ![hourly.entry].evaluated = Some(FALSE) ]
                /\ UNCHANGED << dbVars, published >>
       \/ HourlyError
    /\ UNCHANGED << receivers, parked, alertVars, evalVars, cacheVars, ioVars >>

\* UPDATE bookings SET status = 'CANCELLED' WHERE id = ?  .execute(db).await?
HourlyCancel ==
    /\ hourly.pc = "cancel"
    /\ \/ /\ bookings' = UpdateStatus(bookings, Unwrap(hourly.current).id, "Cancelled")
          /\ hourly' = [ hourly EXCEPT !.pc = "event" ]
          /\ hourlyLog' = [ hourlyLog EXCEPT ![hourly.entry].updated = TRUE ]
          /\ UNCHANGED << students, reschedule_events, weather_alerts, published >>
       \/ HourlyError
    /\ UNCHANGED << receivers, parked, alertVars, evalVars, cacheVars, ioVars >>

\* the INSERT with its error dropped: the notification follows either way
HourlyInsertEventOptional ==
    /\ hourly.pc = "event"
    /\ \/ reschedule_events' =
                Append(reschedule_events, SystemRescheduleEvent(Unwrap(hourly.current)))
       \/ UNCHANGED reschedule_events
    /\ hourly' = [ hourly EXCEPT !.pc = "notify" ]
    /\ UNCHANGED << bookings, students, weather_alerts, published, hourlyLog >>
    /\ UNCHANGED << receivers, parked, alertVars, evalVars, cacheVars, ioVars >>

\* INSERT INTO reschedule_events ..  .execute(db).await?
HourlyInsertEvent ==
    /\ hourly.pc = "event"
    /\ \/ /\ reschedule_events' =
                Append(reschedule_events, SystemRescheduleEvent(Unwrap(hourly.current)))
          /\ hourly' = [ hourly EXCEPT !.pc = "notify" ]
          /\ UNCHANGED << bookings, students, weather_alerts, published, hourlyLog >>
       \/ HourlyError
    /\ UNCHANGED << receivers, parked, alertVars, evalVars, cacheVars, ioVars >>

\* let _ = notification_tx.send(..); return Ok(false); conflicts += 1
HourlyNotify ==
    /\ hourly.pc = "notify"
    /\ published' =
            IF receivers > 0
            THEN Append(published,
                        ConflictNotification(Unwrap(hourly.current),
                                             Unwrap(hourly.pilot),
                                             hourly.unsafe_reason))
            ELSE published
    /\ hourly' = [ hourly EXCEPT !.pc = "next", !.conflicts = @ + 1 ]
    /\ hourlyLog' = HourlyClosed(hourlyLog, "conflict", bookings,
                                 reschedule_events, published')
    /\ UNCHANGED << dbVars, receivers, parked, alertVars, evalVars, cacheVars, ioVars >>

\* Ok(ConflictSummary { total_checked: total, conflicts_found: conflicts })
HourlyFinish ==
    /\ hourly.pc = "next"
    /\ hourly.queue = << >>
    /\ hourly' = [ hourly EXCEPT
                    !.pc = AfterRun(Ok([ total_checked |-> hourly.total,
                                         conflicts_found |-> hourly.conflicts ])),
                    !.current = None, !.pilot = None,
                    !.unsafe_reason = None,
                    !.summary = Some(Ok([ total_checked |-> hourly.total,
                                          conflicts_found |-> hourly.conflicts ])) ]
    /\ UNCHANGED << dbVars, published, receivers, hourlyLog, parked, alertVars,
                    evalVars, cacheVars, ioVars >>

HourlyNext ==
    \/ HourlyQuery
    \/ HourlyTake
    \/ HourlyFetchStudent
    \/ HourlyFetchWeather
    \/ HourlyCancel
    \/ HourlyInsertEvent
    \/ HourlyNotify
    \/ HourlyFinish

-----------------------------------------------------------------------------
(* server/src/scheduler.rs: generate_weather_alerts *)

\* the score bands looked at first, the thunderstorm and visibility checks
\* only for a score of 9.0 or more
determine_severity_score_first(s, w) ==
    IF s < 4 * ScoreUnit THEN "Severe"
    ELSE IF s < 6 * ScoreUnit THEN "High"
    ELSE IF s < (15 * ScoreUnit) \div 2 THEN "Moderate"
    ELSE IF s < 9 * ScoreUnit THEN "Low"
    ELSE IF w.has_thunderstorms THEN "Severe"
    ELSE IF w.visibility_miles < Tenths(1) THEN "Severe"
    ELSE "Clear"

\* determine_severity(score, weather) -> AlertSeverity
determine_severity(s, w) ==
    IF w.has_thunderstorms THEN "Severe"
    ELSE IF w.visibility_miles < Tenths(1) THEN "Severe"
    ELSE IF s < 4 * ScoreUnit THEN "Severe"
    ELSE IF s < 6 * ScoreUnit THEN "High"
    ELSE IF s < (15 * ScoreUnit) \div 2 THEN "Moderate"
    ELSE IF s < 9 * ScoreUnit THEN "Low"
    ELSE "Clear"

\* severity_to_string(severity) -> &'static str
severity_to_string(severity) ==
    CASE severity = "Severe" -> "severe"
      [] severity = "High" -> "high"
      [] severity = "Moderate" -> "moderate"
      [] severity = "Low" -> "low"
      [] severity = "Clear" -> "clear"

\* the alert test with the threshold of a perfect score
AlertWantedAlways(s) == s <= PERFECT_SCORE * ScoreUnit

\* if score < 9.0
AlertWanted(s) == s < 9 * ScoreUnit

\* the weather_alerts row and the weather_alert notification
WeatherAlert(booking, student, severity) ==
    [ type |-> "weather_alert", booking_id |-> booking.id,
      student_name |-> student.name, original_date |-> booking.scheduled_date,
      severity |-> severity_to_string(severity),
      location |-> booking.departure_location ]

\* number of runs of the alert job
MaxAlertRuns == 1

\* std::collections::HashMap::new()
EmptyLocationCache == [ l \in Location |-> None ]

\* the fetched sample used and not kept
LocationCacheInsertSkipped(location_cache, place, w) == location_cache

\* location_cache.insert(location_key.clone(), w.clone())
LocationCacheInsert(location_cache, place, w) ==
    [ location_cache EXCEPT ![place] = Some(w) ]

\* the alert job between two runs
AlertIdle ==
    [ pc |-> "idle", queue |-> << >>, current |-> None, pilot |-> None,
      runs |-> 0,
      \* the interval ticks of the job still to come count up to this
      triggers |-> MaxAlertRuns,
      location_cache |-> EmptyLocationCache, grade |-> None,
      alert_count |-> 0, returned |-> None ]

\* history entry opened when the loop of generate_weather_alerts takes a booking
AlertEntry(booking) ==
    [ booking_id |-> booking.id,
      published_before |-> Len(published),
      published_after |-> Len(published),
      alerts_before |-> Len(weather_alerts),
      graded |-> None, failed |-> FALSE, closed |-> FALSE,
      alerts_after |-> Len(weather_alerts),
      \* the run, whether fetch_current_weather was called ("skipped",
      \* "fetched", "refused") and the sample the booking was graded on
      sweep |-> alerting.runs, called |-> "skipped", used |-> None ]

\* the last history entry at the end of the loop body, with the tables as
\* they are then
AlertClosed(log, failed, alerts, msgs) ==
    [ log EXCEPT ![Len(log)].failed = failed,
                 ![Len(log)].closed = TRUE,
                 ![Len(log)].alerts_after = Len(alerts),
                 ![Len(log)].published_after = Len(msgs) ]

\* generate_weather_alerts up to the loop: the query (fetch_all(db).await?
\* may fail), the early return on no bookings, WeatherClient::from_env()
AlertQuery ==
    /\ alerting.pc = "idle"
    /\ alerting.runs < alerting.triggers
    /\ \/ \E rows \in { SelectBookings(bookings, { "Scheduled", "Rescheduled" },
                                       now, 24) } :
            \/ /\ rows # << >>
               /\ alerting' = [ alerting EXCEPT
                                    !.pc = "next", !.queue = rows, !.runs = @ + 1,
                                    !.location_cache = EmptyLocationCache,
                                    !.alert_count = 0, !.returned = None ]
            \/ \* no bookings, or no weather client: return Ok(0)
               alerting' = [ alerting EXCEPT !.pc = AfterRun(Ok(0)),
                                             !.runs = @ + 1, !.returned = Some(Ok(0)) ]
       \/ alerting' = [ alerting EXCEPT !.pc = AfterRun(Err("query failed")),
                                        !.runs = @ + 1,
                                        !.returned = Some(Err("query failed")) ]
    /\ UNCHANGED << dbVars, published, receivers, alertLog, hourlyVars,
                    evalVars, cacheVars, ioVars >>

\* for booking in bookings {
AlertTake ==
    /\ alerting.pc = "next"
    /\ alerting.queue # << >>
    /\ alerting' = [ alerting EXCEPT !.pc = "fetch_student", !.queue = Tail(@),
                                     !.current = Some(Head(alerting.queue)),
                                     !.pilot = None, !.grade = None ]
    /\ alertLog' = Append(alertLog, AlertEntry(Head(alerting.queue)))
    /\ UNCHANGED << dbVars, published, receivers, hourlyVars, evalVars, cacheVars, ioVars >>

\* an Err arm of the loop body: the error is logged; continue
AlertError ==
    /\ alerting' = [ alerting EXCEPT !.pc = "next" ]
    /\ alertLog' = AlertClosed(alertLog, TRUE, weather_alerts, published)
    /\ UNCHANGED << dbVars, published >>

\* SELECT .. FROM students WHERE id = ?  .fetch_one(db).await
AlertFetchStudent ==
    /\ alerting.pc = "fetch_student"
    /\ \/ /\ IsSome(students[Unwrap(alerting.current).student_id])
          /\ alerting' = [ alerting EXCEPT !.pc = "fetch_weather",
                            !.pilot = students[Unwrap(alerting.current).student_id] ]
          /\ UNCHANGED << dbVars, published, alertLog >>
       \/ AlertError
    /\ UNCHANGED << receivers, hourlyVars, evalVars, cacheVars, ioVars >>

\* the weather of the booking's location, from location_cache or fetched
\* and inserted; then calculate_weather_score and determine_severity
AlertWeather ==
    /\ alerting.pc = "fetch_weather"
    /\ LET place == Unwrap(alerting.current).departure_location
           cached == alerting.location_cache[place]
       IN  \/ \E w \in IF IsSome(cached) THEN { Unwrap(cached) }
                       ELSE { Observed(sample, now) : sample \in SchedWeather } :
                \E s \in { calculate_weather_score(
                                Unwrap(alerting.pilot).training_level, w) } :
                    /\ alerting' =
                          [ alerting EXCEPT
                              !.location_cache = LocationCacheInsert(@, place, w),
                              !.grade = Some([ severity |-> determine_severity(s, w),
                                               points |-> s ]),
                              !.pc = IF AlertWanted(s) THEN "persist" ELSE "next" ]
                    /\ alertLog' =
                          LET graded == [ alertLog EXCEPT
                                            ![Len(alertLog)].graded =
                                                Some(determine_severity(s, w)),
                                            ![Len(alertLog)].called =
                                                IF IsSome(cached) THEN "skipped"
                                                ELSE "fetched",
                                            ![Len(alertLog)].used = Some(w) ]
                          IN  IF AlertWanted(s) THEN graded
                              ELSE AlertClosed(graded, FALSE, weather_alerts, published)
                    /\ UNCHANGED << dbVars, published >>
           \/ \* Err(e): nothing is inserted into location_cache; continue
              /\ ~IsSome(cached)
              /\ alerting' = [ alerting EXCEPT !.pc = "next" ]
              /\ alertLog' = AlertClosed(
                                [ alertLog EXCEPT ![Len(alertLog)].called = "refused" ],
                                TRUE, weather_alerts, published)
              /\ UNCHANGED << dbVars, published >>
    /\ UNCHANGED << receivers, hourlyVars, evalVars, cacheVars, ioVars >>

\* the INSERT with its error logged and no `continue`
AlertPersistOptional ==
    /\ alerting.pc = "persist"
    /\ \/ weather_alerts' =
                Append(weather_alerts,
                       WeatherAlert(Unwrap(alerting.current), Unwrap(alerting.pilot),
                                    Unwrap(alerting.grade).severity))
       \/ UNCHANGED weather_alerts
    /\ alerting' = [ alerting EXCEPT !.pc = "publish" ]
    /\ UNCHANGED << bookings, students, reschedule_events, published, alertLog >>
    /\ UNCHANGED << receivers, hourlyVars, evalVars, cacheVars, ioVars >>

\* INSERT INTO weather_alerts ..  .execute(db).await; on Err: continue
AlertPersist ==
    /\ alerting.pc = "persist"
    /\ \/ /\ weather_alerts' =
                Append(weather_alerts,
                       WeatherAlert(Unwrap(alerting.current), Unwrap(alerting.pilot),
                                    Unwrap(alerting.grade).severity))
          /\ alerting' = [ alerting EXCEPT !.pc = "publish" ]
          /\ UNCHANGED << bookings, students, reschedule_events, published, alertLog >>
       \/ AlertError
    /\ UNCHANGED << receivers, hourlyVars, evalVars, cacheVars, ioVars >>

\* match notification_tx.send(..) { Ok(_) => alert_count += 1, Err(e) => .. }
AlertPublish ==
    /\ alerting.pc = "publish"
    /\ IF receivers > 0
       THEN /\ published' =
                  Append(published,
                         WeatherAlert(Unwrap(alerting.current), Unwrap(alerting.pilot),
                                      Unwrap(alerting.grade).severity))
            /\ alerting' = [ alerting EXCEPT !.pc = "next", !.alert_count = @ + 1 ]
            /\ alertLog' = AlertClosed(alertLog, FALSE, weather_alerts, published')
       ELSE /\ published' = published
            /\ alerting' = [ alerting EXCEPT !.pc = "next" ]
            /\ alertLog' = AlertClosed(alertLog, TRUE, weather_alerts, published)
    /\ UNCHANGED << dbVars, receivers, hourlyVars, evalVars, cacheVars, ioVars >>

\* Ok(alert_count)
AlertFinish ==
    /\ alerting.pc = "next"
    /\ alerting.queue = << >>
    /\ alerting' = [ alerting EXCEPT !.pc = AfterRun(Ok(alerting.alert_count)),
                                     !.current = None,
                                     !.pilot = None, !.grade = None,
                                     !.returned = Some(Ok(alerting.alert_count)) ]
    /\ UNCHANGED << dbVars, published, receivers, alertLog, hourlyVars,
                    evalVars, cacheVars, ioVars >>

AlertNext ==
    \/ AlertQuery
    \/ AlertTake
    \/ AlertFetchStudent
    \/ AlertWeather
    \/ AlertPersist
    \/ AlertPublish
    \/ AlertFinish

\* the scheduler at rest, for the machines that do not run it
SchedIdle ==
    /\ bookings = << >>
    /\ students = << >>
    /\ reschedule_events = << >>
    /\ weather_alerts = << >>
    /\ published = << >>
    /\ receivers = 0
    /\ hourly = HourlyIdle
    /\ alerting = AlertIdle
    /\ hourlyLog = << >>
    /\ alertLog = << >>
    /\ parked = None
-----------------------------------------------------------------------------
(* core/src/weather/api.rs: WeatherClient::fetch_current_weather and
   retry_with_backoff *)

\* no fetch under way, no WebSocket connection, no PATCH request
IoIdle ==
    /\ fetch = [ pc |-> "idle", place |-> None, attempt |-> 0, calls |-> << >>,
                 sleeps |-> << >>, last_error |-> None, answer |-> None ]
    /\ socket = [ conn |-> "none", cursor |-> 1, delivered |-> << >>,
                  break_cause |-> None ]
    /\ patch = [ id |-> None, booking |-> None, student |-> None, pc |-> "idle",
                 answer |-> None, new_scheduled_date |-> None, requests |-> 0 ]

\* self.retry_with_backoff(|| self.fetch_current_weather_inner(lat, lon), 3)
MAX_ATTEMPTS == 3

\* the delay kept at its initial value
BackoffFlat(attempt) == 100

\* Duration::from_millis(100 * 2_u64.pow(attempt)), in milliseconds
Backoff(attempt) == 100 * 2 ^ attempt

\* fetch_current_weather(lat, lon): retry_with_backoff is entered
RetryStart ==
    /\ fetch.pc = "idle"
    /\ \E place \in Location : fetch' = [ fetch EXCEPT !.pc = "call", !.place = Some(place) ]
    /\ UNCHANGED << socket, patch, evalVars, cacheVars, schedVars >>

\* match f().await: Ok(result) => return Ok(result); Err(e) => last_error =
\* Some(e), then the sleep if attempt < max_attempts - 1; after the last
\* attempt the loop ends and Err(last_error.unwrap()) is returned
RetryCall ==
    /\ fetch.pc = "call"
    /\ \/ \E sample \in SchedWeather :
            fetch' = [ fetch EXCEPT
                        !.pc = "done",
                        !.calls = Append(@, Ok(Observed(sample, now))),
                        !.answer = Some(Ok(Observed(sample, now))) ]
       \/ \E e \in { "request failed", "bad status", "bad body" } :
            fetch' = IF fetch.attempt < MAX_ATTEMPTS - 1
                     THEN [ fetch EXCEPT
                              !.pc = "sleep",
                              !.calls = Append(@, Err(e)),
                              !.sleeps = Append(@, Backoff(fetch.attempt)),
                              !.last_error = Some(e) ]
                     ELSE [ fetch EXCEPT
                              !.pc = "done",
                              !.calls = Append(@, Err(e)),
                              !.last_error = Some(e),
                              !.answer = Some(Err(e)) ]
    /\ UNCHANGED << socket, patch, evalVars, cacheVars, schedVars >>

\* tokio::time::sleep(delay).await is over: the next turn of
\* `for attempt in 0..max_attempts`
RetrySleep ==
    /\ fetch.pc = "sleep"
    /\ fetch' = [ fetch EXCEPT !.pc = "call", !.attempt = @ + 1 ]
    /\ UNCHANGED << socket, patch, evalVars, cacheVars, schedVars >>

RetryNext == RetryStart \/ RetryCall \/ RetrySleep

-----------------------------------------------------------------------------
(* server/src/main.rs, server/src/routes/websocket.rs: the notification
   channel and a WebSocket connection *)

\* most messages sent on the channel
MaxPublished == 130

\* broadcast::channel::<String>(100)
CHANNEL_CAPACITY == 100

RECURSIVE next_power_of_two(_, _)
\* the slots of the channel's buffer: tokio's broadcast::channel rounds the
\* capacity asked for up to a power of two
next_power_of_two(n, p) == IF p >= n THEN p ELSE next_power_of_two(n, 2 * p)

\* let mut rx = tx.subscribe(): the receiver starts at the channel's tail
Subscribe ==
    /\ socket.conn = "none"
    /\ socket' = [ socket EXCEPT !.conn = "open", !.cursor = Len(published) + 1 ]
    /\ receivers' = receivers + 1
    /\ UNCHANGED << fetch, patch, dbVars, published, hourlyVars, alertVars,
                    evalVars, cacheVars >>

\* notification_tx.send(message): Err, and nothing stored, without a receiver
Send ==
    /\ Len(published) < MaxPublished
    /\ published' = IF receivers > 0
                    THEN Append(published, Len(published) + 1)
                    ELSE published
    /\ UNCHANGED << fetch, socket, patch, dbVars, receivers, hourlyVars, alertVars,
                    evalVars, cacheVars >>

\* msg = rx.recv() in the send task: Ok(notification) is forwarded to the
\* client; Err(_) => break, which RecvError::Lagged is once the slot of the
\* receiver's next message has been written over; the task ends, the
\* receiver is dropped and handle_socket closes the connection
Recv ==
    /\ socket.conn = "open"
    /\ socket.cursor <= Len(published)
    /\ IF Len(published) - socket.cursor + 1 > next_power_of_two(CHANNEL_CAPACITY, 1)
       THEN /\ socket' = [ socket EXCEPT !.conn = "ended",
                                         !.break_cause = Some("recv error") ]
            /\ receivers' = receivers - 1
       ELSE /\ socket' = [ socket EXCEPT
                            !.cursor = @ + 1,
                            !.delivered = Append(@, published[socket.cursor]) ]
            /\ receivers' = receivers
    /\ UNCHANGED << fetch, patch, dbVars, published, hourlyVars, alertVars,
                    evalVars, cacheVars >>

\* the client closes, or sender.send(..) to it fails: break
Close ==
    /\ socket.conn = "open"
    /\ socket' = [ socket EXCEPT !.conn = "ended", !.break_cause = Some("client") ]
    /\ receivers' = receivers - 1
    /\ UNCHANGED << fetch, patch, dbVars, published, hourlyVars, alertVars,
                    evalVars, cacheVars >>

SocketNext == Subscribe \/ Send \/ Recv \/ Close

-----------------------------------------------------------------------------
(* server/src/routes/bookings.rs: reschedule_booking *)

\* number of PATCH requests
MaxPatches == 2

\* the value of the n-th `?` of a statement: the n-th .bind(..), and NULL
\* where fewer values were bound than the statement has placeholders
Param(binds, n) == IF n <= Len(binds) THEN Some(binds[n]) ELSE None

\* UPDATE bookings SET scheduled_date = ?, status = ? WHERE id = ?
\* a NULL id compares true with no row
UpdateBooking(bs, binds) ==
    [ i \in DOMAIN bs |->
        IF Param(binds, 3) = Some(i)
        THEN [ bs[i] EXCEPT !.scheduled_date = Unwrap(Param(binds, 1)),
                            !.status = Unwrap(Param(binds, 2)) ]
        ELSE bs[i] ]

\* PATCH /api/bookings/:id/reschedule arrives; SELECT .. FROM bookings WHERE
\* id = ? .fetch_optional: an error gives 500, no row gives 404
PatchFetchBooking ==
    /\ patch.pc \in { "idle", "done" }
    /\ patch.requests < MaxPatches
    /\ \E id \in DOMAIN bookings \cup { "b9" }, date \in { 12, 30 } :
          \/ /\ id \in DOMAIN bookings
             /\ patch' = [ id |-> Some(id), booking |-> Some(bookings[id]),
                           student |-> None, pc |-> "fetch_student",
                           answer |-> None, new_scheduled_date |-> Some(date),
                           requests |-> patch.requests + 1 ]
          \/ /\ id \notin DOMAIN bookings
             /\ patch' = [ id |-> Some(id), booking |-> None, student |-> None,
                           pc |-> "done", answer |-> Some(Err("NOT_FOUND")),
                           new_scheduled_date |-> Some(date),
                           requests |-> patch.requests + 1 ]
          \/ patch' = [ id |-> Some(id), booking |-> None, student |-> None,
                        pc |-> "done",
                        answer |-> Some(Err("INTERNAL_SERVER_ERROR")),
                        new_scheduled_date |-> Some(date),
                        requests |-> patch.requests + 1 ]
    /\ UNCHANGED << fetch, socket, evalVars, cacheVars, schedVars >>

\* SELECT .. FROM students WHERE id = ? .fetch_optional: an error gives 500,
\* no row gives 404
PatchFetchStudent ==
    /\ patch.pc = "fetch_student"
    /\ \/ /\ IsSome(students[Unwrap(patch.booking).student_id])
          /\ patch' = [ patch EXCEPT !.pc = "update",
                          !.student = students[Unwrap(patch.booking).student_id] ]
       \/ /\ students[Unwrap(patch.booking).student_id] = None
          /\ patch' = [ patch EXCEPT !.pc = "done",
                                     !.answer = Some(Err("NOT_FOUND")) ]
       \/ patch' = [ patch EXCEPT !.pc = "done",
                                  !.answer = Some(Err("INTERNAL_SERVER_ERROR")) ]
    /\ UNCHANGED << fetch, socket, evalVars, cacheVars, schedVars >>

\* the UPDATE with .bind(&req.new_scheduled_date) and
\* .bind(BookingStatus::Rescheduled.as_str()), two values for three
\* placeholders; .execute(..).await.map_err(..)? gives 500 on an error
PatchUpdate ==
    /\ patch.pc = "update"
    /\ \/ /\ bookings' = UpdateBooking(bookings,
                            << Unwrap(patch.new_scheduled_date), "Rescheduled" >>)
          /\ patch' = [ patch EXCEPT !.pc = "log_event" ]
       \/ /\ patch' = [ patch EXCEPT !.pc = "done",
                                     !.answer = Some(Err("INTERNAL_SERVER_ERROR")) ]
          /\ UNCHANGED bookings
    /\ UNCHANGED << fetch, socket, evalVars, cacheVars, students,
                    reschedule_events, weather_alerts, published, receivers,
                    hourlyVars, alertVars >>

\* INSERT INTO reschedule_events (id, booking_id, old_date, new_date, reason,
\* created_at) ..; .map_err(..).ok(): a failure is logged and the request
\* goes on
PatchLogEvent ==
    /\ patch.pc = "log_event"
    /\ \/ reschedule_events' = Append(reschedule_events,
               \* old_date is kept under original_date and reason under
               \* suggested_by, the columns of the scheduler's insert
               [ booking_id |-> Unwrap(patch.id),
                 original_date |-> Unwrap(patch.booking).scheduled_date,
                 new_date |-> Unwrap(patch.new_scheduled_date),
                 suggested_by |-> "User requested reschedule" ])
       \/ UNCHANGED reschedule_events
    /\ patch' = [ patch EXCEPT !.pc = "respond" ]
    /\ UNCHANGED << fetch, socket, evalVars, cacheVars, bookings, students,
                    weather_alerts, published, receivers, hourlyVars, alertVars >>

\* let _ = state.notification_tx.send(..); then SELECT .. WHERE id = ?
\* .fetch_one and Ok(Json(updated_booking.into())), or 500 on an error
PatchRespond ==
    /\ patch.pc = "respond"
    /\ published' =
          IF receivers > 0
          THEN Append(published,
                  \* json!({"type": "booking_rescheduled", ..})
                  [ type |-> "booking_rescheduled",
                    booking_id |-> Unwrap(patch.id),
                    student_name |-> Unwrap(patch.student).name,
                    new_date |-> Unwrap(patch.new_scheduled_date),
                    old_date |-> Unwrap(patch.booking).scheduled_date ])
          ELSE published
    /\ \/ patch' = [ patch EXCEPT !.pc = "done",
                        !.answer = Some(Ok(bookings[Unwrap(patch.id)])) ]
       \/ patch' = [ patch EXCEPT !.pc = "done",
                                  !.answer = Some(Err("INTERNAL_SERVER_ERROR")) ]
    /\ UNCHANGED << fetch, socket, evalVars, cacheVars, dbVars, receivers,
                    hourlyVars, alertVars >>

PatchNext ==
    \/ PatchFetchBooking
    \/ PatchFetchStudent
    \/ PatchUpdate
    \/ PatchLogEvent
    \/ PatchRespond

-----------------------------------------------------------------------------
(* The cache and the generator as state machines *)

\* last clock reading (ticks)
MaxClock == 13

\* longest forecast handed to the generator
MaxForecast == 3

\* most options a well-formed reply of the generation service holds
MaxAiOptions == 4

EmptyCache == [ k \in CacheKeys |-> None ]

\* responses written through AiCache::set directly
DirectResponses == { [ options |-> << >> ], [ options |-> AiOptions(OPTIONS_WANTED) ] }

\* Utc::now() moves on by d ticks
Tick(d) ==
    /\ now + d <= MaxClock
    /\ now' = now + d
    /\ lastGet' = None
    /\ UNCHANGED << cache, lastSet, request, response, cleanup, evalVars, schedVars, ioVars >>

\* cache.set(key, response).await
CacheSet(key, r) ==
    /\ cache' = AiCacheSet(cache, key, r, now)
    /\ lastSet' = [ lastSet EXCEPT ![key] = Some(<< r, now >>) ]
    /\ lastGet' = None
    /\ UNCHANGED << now, request, response, cleanup, evalVars, schedVars, ioVars >>

\* cache.get(&key).await
CacheGet(key) ==
    /\ lastGet' = Some([ key |-> key, result |-> AiCacheGet(cache, key, now) ])
    /\ UNCHANGED << cache, now, lastSet, request, response, cleanup, evalVars, schedVars, ioVars >>

\* cache_clone.clear_expired().await, from the hourly cleanup task
ClearExpired ==
    /\ \/ \* the task holds the instance the client was built with
          /\ cleanup.shared
          /\ cache' = AiCacheClearExpired(cache, now)
          /\ cache' # cache
          /\ cleanup' = [ cleanup EXCEPT !.swept_at = Some(now) ]
       \/ \* the task holds ai_cache, the client its own AiCache::new()
          /\ ~cleanup.shared
          /\ cleanup.swept_at # Some(now)
          /\ cleanup' = [ cleanup EXCEPT
                            !.ai_cache = AiCacheClearExpired(@, now),
                            !.swept_at = Some(now) ]
          /\ UNCHANGED cache
    /\ lastGet' = None
    /\ UNCHANGED << now, lastSet, request, response, evalVars, schedVars, ioVars >>

\* ai_client.generate_reschedule_options(&booking, &student, &forecast, ..).await
Generate(booking, student, weather_forecast, reply) ==
    \E out \in { generate_reschedule_options(cache, now, booking, student,
                                              weather_forecast, reply) } :
        /\ request' = Some([ booking |-> booking, student |-> student,
                            weather_forecast |-> weather_forecast, reply |-> reply ])
        /\ response' = Some([ result |-> out.result, path |-> out.path ])
        /\ cache' = out.cache_after
        /\ lastSet' = IF out.path = "ai"
                      THEN [ lastSet EXCEPT ![cache_key(booking)] =
                                out.cache_after[cache_key(booking)] ]
                      ELSE lastSet
        \* self.cache.get(&cache_key).await, the call's first step
        /\ lastGet' = Some([ key |-> cache_key(booking),
                             result |-> AiCacheGet(cache, cache_key(booking), now) ])
        /\ UNCHANGED << now, cleanup, evalVars, schedVars, ioVars >>

EvalIdle ==
    /\ level = "StudentPilot"
    /\ weather = WeatherData(100, 0, None, FALSE, FALSE)
    /\ minimums = default_weather_minimums("StudentPilot")
    /\ safety = None
    /\ score = None

EvalNext == Evaluate \/ Score

CacheInit ==
    /\ cache = EmptyCache
    /\ now = 0
    /\ lastSet = EmptyCache
    /\ lastGet = None
    /\ request = None
    /\ response = None
    \* main with OPENAI_API_KEY set: the client is built from ai_cache.clone(),
    \* the instance the cleanup task holds as cache_clone
    /\ cleanup = [ shared |-> TRUE, swept_at |-> None, ai_cache |-> EmptyCache ]

\* the evaluator called on its own: nothing cached, the scheduler not started
InitEval == EvalInputs /\ CacheInit /\ SchedIdle /\ IoIdle

SpecEval == InitEval /\ [][EvalNext]_vars

CacheNext ==
    \/ \E k \in CacheKeys, r \in DirectResponses : CacheSet(k, r)
    \/ \E k \in CacheKeys : CacheGet(k)
    \/ ClearExpired
    \/ Tick(1)

\* the server as main leaves it: AiCache::new(), no job started, no fetch
\* under way, no client connected
InitIdle == CacheInit /\ EvalIdle /\ SchedIdle /\ IoIdle

SpecCache == InitIdle /\ [][CacheNext]_vars

\* the time to live, in ticks
SuggestStep == TTL_HOURS * TicksPerHour

\* the forecasts of the suggestion requests: storm and clear days alternating
AlternatingForecast(n) ==
    ForecastOf([ i \in 1..n |-> IF i % 2 = 1 THEN Samples.thunderstorm ELSE Samples.clear_sky ])

SuggestNext ==
    \/ \E b \in SuggestBookings, n \in 0..MaxForecast,
          a \in AiReplies({ "transport_error", "bad_status", "bad_content" },
                          MaxAiOptions) \ AiReplies({ }, OPTIONS_WANTED - 2) :
            Generate(b, SuggestStudents[b.student_id], AlternatingForecast(n), a)
    \/ ClearExpired
    \/ Tick(SuggestStep)

SpecSuggest == InitIdle /\ [][SuggestNext]_vars

\* the server started with OPENAI_API_KEY set or unset: when it is unset the
\* client is built with "dummy_key" and its own Arc::new(AiCache::new()), and
\* the cleanup task keeps ai_cache
InitEitherKey ==
    /\ cache = EmptyCache
    /\ now = 0
    /\ lastSet = EmptyCache
    /\ lastGet = None
    /\ request = None
    /\ response = None
    /\ cleanup \in { [ shared |-> s, swept_at |-> None, ai_cache |-> EmptyCache ] :
                      s \in BOOLEAN }
    /\ EvalIdle /\ SchedIdle /\ IoIdle

SpecCleanup == InitEitherKey /\ [][SuggestNext]_vars

FallbackInit ==
    /\ cache = EmptyCache
    /\ now = 0
    /\ lastSet = EmptyCache
    /\ lastGet = None
    \* every way the generation attempt fails: an error, or fewer than 3 options
    /\ \E b \in SuggestBookings, l \in TrainingLevel,
          f \in Forecasts(ForecastKinds, MaxForecast + 1)
                 \* and forecasts longer than the 14 samples the first pass
                 \* looks at: 13 storm days, then clear days
                 \cup { ForecastOf([ i \in 1..n |->
                            IF i <= 13 THEN Samples.thunderstorm
                            ELSE Samples.clear_sky ]) : n \in 14..16 },
          a \in AiReplies({ "transport_error", "bad_status", "bad_content" },
                          OPTIONS_WANTED - 1) :
            request = Some([ booking |-> b, student |-> Student("s1", "Ann", l),
                             weather_forecast |-> f,
                             reply |-> a ])
    /\ response = None
    \* main with OPENAI_API_KEY set: the client is built from ai_cache.clone(),
    \* the instance the cleanup task holds as cache_clone
    /\ cleanup = [ shared |-> TRUE, swept_at |-> None, ai_cache |-> EmptyCache ]

\* client.generate_fallback_options(&booking, &student, &weather, &[]).await
Fallback ==
    /\ response = None
    /\ response' = Some([ result |-> generate_fallback_options(
                                        Unwrap(request).booking,
                                        Unwrap(request).student,
                                        Unwrap(request).weather_forecast),
                          path |-> "fallback" ])
    /\ UNCHANGED << cache, now, lastSet, lastGet, request, cleanup, evalVars, schedVars, ioVars >>

\* the same request made through generate_reschedule_options
Requested ==
    /\ response = None
    /\ Generate(Unwrap(request).booking, Unwrap(request).student,
                Unwrap(request).weather_forecast, Unwrap(request).reply)

FallbackNext == Fallback \/ Requested

\* the fallback called directly, as test_fallback_generation calls it, or
\* reached through a generation attempt that fails
InitFallback == FallbackInit /\ EvalIdle /\ SchedIdle /\ IoIdle

SpecFallback == InitFallback /\ [][FallbackNext]_vars


SpecRetry == InitIdle /\ [][RetryNext]_vars

SpecSocket == InitIdle /\ [][SocketNext]_vars
-----------------------------------------------------------------------------
(* The scheduler's jobs as state machines *)

\* the students on file: s3 has no row
SchedStudents ==
    [ s \in { "s1", "s2", "s3" } |->
        CASE s = "s1" -> Some(Student("s1", "Ann", "StudentPilot"))
          [] s = "s2" -> Some(Student("s2", "Bob", "InstrumentRated"))
          [] s = "s3" -> None ]

\* the bookings on file: b1, b2 and b3 inside both windows, b4 outside
\* both
SchedBookings(student2, status2, status3) ==
    [ b \in { "b1", "b2", "b3", "b4" } |->
        CASE b = "b1" -> Booking("b1", "s1", 10, "KTOA", "Scheduled")
          [] b = "b2" -> Booking("b2", student2, 20, "KTOA", status2)
          [] b = "b3" -> Booking("b3", "s2", 22, "KSMO", status3)
          [] b = "b4" -> Booking("b4", "s1", 60, "KSMO", "Scheduled") ]

SchedInit ==
    /\ \E student2 \in { "s2", "s3" }, status2 \in { "Scheduled", "Rescheduled" },
          status3 \in { "Scheduled", "Completed" } :
            bookings = SchedBookings(student2, status2, status3)
    /\ students = SchedStudents
    /\ reschedule_events = << >>
    /\ weather_alerts = << >>
    /\ published = << >>
    /\ receivers \in { 0, 1 }
    /\ hourly = HourlyIdle
    /\ alerting = AlertIdle
    /\ hourlyLog = << >>
    /\ alertLog = << >>
    /\ parked = None

\* the scheduler started over the tables, the suggestion cache empty
InitSched == SchedInit /\ EvalIdle /\ CacheInit /\ IoIdle

SpecHourly == InitSched /\ [][HourlyNext]_vars

SpecAlerts == InitSched /\ [][AlertNext]_vars

\* both jobs of start_weather_monitor, each spawned as a task of its own
SchedNext == HourlyNext \/ AlertNext

\* both jobs over one set of tables: b2's student has no row, a client is
\* subscribed
InitBoth ==
    /\ InitSched
    /\ bookings = SchedBookings("s3", "Scheduled", "Scheduled")
    /\ receivers = 1

SpecSched == InitBoth /\ [][SchedNext]_vars

\* PATCH requests over the tables, no job running
SpecPatch == InitSched /\ [][PatchNext]_vars

\* the five-minute job triggered once more than in the other specifications,
\* over one set of tables: b1 and b2 depart from the same location, b2's
\* student is on file
InitTwice ==
    /\ bookings = SchedBookings("s2", "Scheduled", "Scheduled")
    /\ students = SchedStudents
    /\ reschedule_events = << >>
    /\ weather_alerts = << >>
    /\ published = << >>
    /\ receivers = 1
    /\ hourly = HourlyIdle
    /\ alerting = [ AlertIdle EXCEPT !.triggers = MaxAlertRuns + 1 ]
    /\ hourlyLog = << >>
    /\ alertLog = << >>
    /\ parked = None
    /\ EvalIdle /\ CacheInit /\ IoIdle

SpecAlertsTwice == InitTwice /\ [][AlertNext]_vars

\* both jobs triggered once more than in the other specifications, over
\* tables where only b1 is inside the windows
InitRepeated ==
    /\ bookings = SchedBookings("s2", "Completed", "Completed")
    /\ students = SchedStudents
    /\ reschedule_events = << >>
    /\ weather_alerts = << >>
    /\ published = << >>
    /\ receivers = 1
    /\ hourly = [ HourlyIdle EXCEPT !.triggers = MaxHourlyRuns + 1 ]
    /\ alerting = [ AlertIdle EXCEPT !.triggers = MaxAlertRuns + 1 ]
    /\ hourlyLog = << >>
    /\ alertLog = << >>
    /\ parked = None
    /\ EvalIdle /\ CacheInit /\ IoIdle

\* the scheduler fires each job at its interval and the runtime runs every
\* spawned task on
SpecRepeated ==
    InitRepeated /\ [][SchedNext]_vars /\ WF_vars(HourlyNext) /\ WF_vars(AlertNext)

\* a writer outside the server marks a booking flown: UPDATE bookings SET
\* status = 'COMPLETED' WHERE id = ?
ExternalCompletion ==
    /\ \E b \in DOMAIN bookings :
          /\ bookings[b].status \in { "Scheduled", "Rescheduled" }
          /\ bookings' = UpdateStatus(bookings, b, "Completed")
    /\ UNCHANGED << students, reschedule_events, weather_alerts, published,
                    receivers, hourlyVars, alertVars, evalVars, cacheVars, ioVars >>

\* the hourly job, the PATCH handler and the outside writer, each step of one
\* between any two steps of the others
ServingNext == HourlyNext \/ PatchNext \/ ExternalCompletion

\* the hourly job with two triggers to come and one PATCH request to come,
\* over tables where only b1 is inside the job's window
InitServing ==
    /\ bookings = SchedBookings("s2", "Completed", "Completed")
    /\ students = SchedStudents
    /\ reschedule_events = << >>
    /\ weather_alerts = << >>
    /\ published = << >>
    /\ receivers = 1
    /\ hourly = [ HourlyIdle EXCEPT !.triggers = MaxHourlyRuns + 1 ]
    /\ alerting = AlertIdle
    /\ hourlyLog = << >>
    /\ alertLog = << >>
    /\ parked = None
    /\ EvalIdle /\ CacheInit
    /\ fetch = [ pc |-> "idle", place |-> None, attempt |-> 0, calls |-> << >>,
                 sleeps |-> << >>, last_error |-> None, answer |-> None ]
    /\ socket = [ conn |-> "none", cursor |-> 1, delivered |-> << >>,
                  break_cause |-> None ]
    /\ patch = [ id |-> None, booking |-> None, student |-> None, pc |-> "idle",
                 answer |-> None, new_scheduled_date |-> None,
                 requests |-> MaxPatches - 1 ]

SpecServing == InitServing /\ [][ServingNext]_vars

\* the trigger of the hourly job fires while the run before it is waiting at
\* an await: the scheduler spawns the new run as a task of its own
HourlyOverlap ==
    /\ hourly.pc # "idle"
    /\ parked = None
    /\ hourly.runs < hourly.triggers
    /\ parked' = Some(hourly)
    /\ hourly' = [ HourlyIdle EXCEPT !.runs = hourly.runs,
                                     !.triggers = hourly.triggers ]
    /\ UNCHANGED << dbVars, published, receivers, hourlyLog, alertVars,
                    evalVars, cacheVars, ioVars >>

\* the runtime goes on with the other run of the hourly job; a run that has
\* returned is dropped
HourlySwitch ==
    /\ IsSome(parked)
    /\ hourly' = [ Unwrap(parked) EXCEPT !.runs = hourly.runs ]
    /\ parked' = IF hourly.pc = "idle" THEN None ELSE Some(hourly)
    /\ UNCHANGED << dbVars, published, receivers, hourlyLog, alertVars,
                    evalVars, cacheVars, ioVars >>

\* runs of the hourly job that may overlap in time
OverlapNext == HourlyNext \/ HourlyOverlap \/ HourlySwitch

SpecOverlap == InitRepeated /\ [][OverlapNext]_vars
\* "Thunderstorm"
PAT_THUNDERSTORM ==
    << "T", "h", "u", "n", "d", "e", "r", "s", "t", "o", "r", "m" >>

\* "Icing conditions present"
PAT_ICING ==
    << "I", "c", "i", "n", "g", " ", "c", "o", "n", "d", "i", "t", "i", "o",
       "n", "s", " ", "p", "r", "e", "s", "e", "n", "t" >>

\* "mi below minimum"
PAT_VISIBILITY ==
    << "m", "i", " ", "b", "e", "l", "o", "w", " ", "m", "i", "n", "i", "m",
       "u", "m" >>

\* "kt exceeds maximum"
PAT_WIND ==
    << "k", "t", " ", "e", "x", "c", "e", "e", "d", "s", " ", "m", "a", "x",
       "i", "m", "u", "m" >>

\* "ft below minimum"
PAT_CEILING ==
    << "f", "t", " ", "b", "e", "l", "o", "w", " ", "m", "i", "n", "i", "m",
       "u", "m" >>

\* "ft too low for student pilot"
PAT_STUDENT_FLOOR ==
    << "f", "t", " ", "t", "o", "o", " ", "l", "o", "w", " ", "f", "o", "r",
       " ", "s", "t", "u", "d", "e", "n", "t", " ", "p", "i", "l", "o", "t" >>

\* "IMC conditions not allowed"
PAT_IMC ==
    << "I", "M", "C", " ", "c", "o", "n", "d", "i", "t", "i", "o", "n", "s",
       " ", "n", "o", "t", " ", "a", "l", "l", "o", "w", "e", "d" >>

-----------------------------------------------------------------------------
(* Properties of the evaluator and the scorer, checked under SpecEval *)

Evaluated == IsSome(safety)

Scored == IsSome(score)

DefaultMinimums == minimums = default_weather_minimums(level)

\* levels less strict than l, along StudentPilot, PrivatePilot, InstrumentRated
LessStrict(l) ==
    CASE l = "StudentPilot" -> { "PrivatePilot", "InstrumentRated" }
      [] l = "PrivatePilot" -> { "InstrumentRated" }
      [] l = "InstrumentRated" -> { }

\* C1: monotonic relaxation.  A sample judged safe for a level under that
\* level's default minimums is judged safe for every less strict level under
\* its own default minimums (StudentPilot => PrivatePilot => InstrumentRated).
C1_MonotonicRelaxation ==
    (Evaluated /\ DefaultMinimums /\ Unwrap(safety).is_safe) =>
        \A l \in LessStrict(level) :
            is_flight_safe(l, weather, default_weather_minimums(l)).is_safe

\* a StudentPilot-safe sample with no ceiling report has been evaluated
C1_Witness ==
    /\ Evaluated /\ DefaultMinimums
    /\ level = "StudentPilot"
    /\ Unwrap(safety).is_safe
    /\ weather.ceiling_ft = None

\* C7: the score lies in [0, 10] for every level and sample, also when the
\* penalties add up to more than 10.
C7_ScoreBounded ==
    Scored => /\ Unwrap(score) >= 0
              /\ Unwrap(score) <= PERFECT_SCORE * ScoreUnit

\* a sample whose penalties exceed 10 points has been scored
C7_Witness ==
    /\ Scored
    /\ RawScore(level, weather) < 0
    /\ Unwrap(score) = 0

\* C8: with thunderstorms present, every level's default minimums give
\* unsafe, with a reason that contains "Thunderstorm".
C8_ThunderstormsUnsafe ==
    (Evaluated /\ DefaultMinimums /\ weather.has_thunderstorms) =>
        /\ ~Unwrap(safety).is_safe
        /\ IsSome(Unwrap(safety).reason)
        /\ Contains(Unwrap(Unwrap(safety).reason), PAT_THUNDERSTORM)

\* an InstrumentRated evaluation of an otherwise flawless thunderstorm sample
C8_Witness ==
    /\ Evaluated /\ DefaultMinimums
    /\ level = "InstrumentRated"
    /\ weather = WeatherData(100, 0, None, TRUE, FALSE)
    /\ ~Unwrap(safety).is_safe

\* C9: visibility 0 is unsafe for every level under its default minimums,
\* whatever the wind and the ceiling.
C9_ZeroVisibilityUnsafe ==
    (Evaluated /\ DefaultMinimums /\ weather.visibility_miles = 0) =>
        ~Unwrap(safety).is_safe

\* an InstrumentRated evaluation at visibility 0 with calm wind, no ceiling
C9_Witness ==
    /\ Evaluated /\ DefaultMinimums
    /\ level = "InstrumentRated"
    /\ weather = WeatherData(0, 0, None, FALSE, FALSE)
    /\ ~Unwrap(safety).is_safe


\* the samples of the grid that differ from w in one factor only, for the worse:
\* lower visibility, higher wind, a lower ceiling where w reports one, or a
\* thunderstorm or icing flag turned on
WorseInOneFactor(w) ==
    { WeatherData(v, w.wind_speed_knots, w.ceiling_ft, w.has_thunderstorms,
                  w.has_icing) :
        v \in { x \in VisibilityGrid : x < w.visibility_miles } }
    \cup
    { WeatherData(w.visibility_miles, k, w.ceiling_ft, w.has_thunderstorms,
                  w.has_icing) :
        k \in { x \in WindGrid : x > w.wind_speed_knots } }
    \cup
    { WeatherData(w.visibility_miles, w.wind_speed_knots, c,
                  w.has_thunderstorms, w.has_icing) :
        c \in { x \in CeilingGrid :
                  /\ IsSome(x) /\ IsSome(w.ceiling_ft)
                  /\ Unwrap(x) < Unwrap(w.ceiling_ft) } }
    \cup
    (IF w.has_thunderstorms THEN { }
     ELSE { WeatherData(w.visibility_miles, w.wind_speed_knots, w.ceiling_ft,
                        TRUE, w.has_icing) })
    \cup
    (IF w.has_icing THEN { }
     ELSE { WeatherData(w.visibility_miles, w.wind_speed_knots, w.ceiling_ft,
                        w.has_thunderstorms, TRUE) })

\* C17: the score never increases when one factor worsens and the others are
\* held fixed: for the level and sample that were scored, every sample that is
\* worse in exactly one factor scores no higher.
C17_ScoreMonotone ==
    Scored =>
        \A worse \in WorseInOneFactor(weather) :
            calculate_weather_score(level, worse) <= Unwrap(score)

\* a StudentPilot sample just under the high-wind threshold has been scored,
\* and the next wind value of the grid costs more than the 2 point deduction
C17_Witness ==
    /\ Scored
    /\ level = "StudentPilot"
    /\ weather = WeatherData(100, 100, Some(5000), FALSE, FALSE)
    /\ \E worse \in WorseInOneFactor(weather) :
          /\ worse.wind_speed_knots = 101
          /\ Unwrap(score) - calculate_weather_score(level, worse)
                > STUDENT_HIGH_WIND_PENALTY * ScoreUnit

\* "student pilot"
StudentPilotWords == SubSeq(PAT_STUDENT_FLOOR, 16, 28)

\* the minimums rows a caller can pass: the three defaults and a custom row
MinimumsRows ==
    { default_weather_minimums(l) : l \in TrainingLevel } \cup { CustomMinimums }

\* C18: the StudentPilot ceiling floor.  For a StudentPilot, a reported ceiling
\* below 3000 ft gives unsafe with a reason that contains "student pilot",
\* under the minimums passed and under every other minimums row; for the other
\* two levels no reason contains "student pilot".
C18_StudentCeilingFloor ==
    Evaluated =>
        /\ (/\ level = "StudentPilot"
            /\ IsSome(weather.ceiling_ft)
            /\ Unwrap(weather.ceiling_ft) < 3000) =>
                /\ ~Unwrap(safety).is_safe
                /\ Contains(Unwrap(Unwrap(safety).reason), StudentPilotWords)
                /\ \A m \in MinimumsRows :
                      LET r == is_flight_safe(level, weather, m)
                      IN  /\ ~r.is_safe
                          /\ Contains(Unwrap(r.reason), StudentPilotWords)
        /\ (level # "StudentPilot" /\ IsSome(Unwrap(safety).reason)) =>
                ~Contains(Unwrap(Unwrap(safety).reason), StudentPilotWords)

\* a StudentPilot sample at 2999 ft, flawless otherwise, has been evaluated
\* under the custom row that configures no ceiling floor: the floor is the only
\* reason
C18_Witness ==
    /\ Evaluated
    /\ level = "StudentPilot"
    /\ minimums = CustomMinimums
    /\ weather = WeatherData(100, 0, Some(2999), FALSE, FALSE)
    /\ ~Unwrap(safety).is_safe
    /\ Unwrap(safety).reason = Some(Concat(<< SafetyText.ceiling_is, Digits(2999),
                                             SafetyText.ft_too_low_student >>))

\* the ceiling floor of a minimums row, an absent one counting as no floor
CeilingFloor(m) == IF IsSome(m.min_ceiling_ft) THEN Unwrap(m.min_ceiling_ft) ELSE 0

\* C20: the default table has one entry per training level, and from each level
\* to every less strict one (StudentPilot, PrivatePilot, InstrumentRated) the
\* minimum visibility never increases, the maximum wind never decreases, the
\* ceiling floor never increases, and IMC once allowed stays allowed; every
\* row forbids thunderstorms and icing.  Stated of the row an evaluation was
\* given, against the rows of the less strict levels.
C20_MinimumsTableMonotone ==
    /\ Len(MinimumsKeys) = Cardinality(TrainingLevel)
    /\ { MinimumsKeys[i] : i \in DOMAIN MinimumsKeys } = TrainingLevel
    /\ (Evaluated /\ DefaultMinimums) =>
          /\ minimums.no_thunderstorms
          /\ minimums.no_icing
          /\ \A l \in LessStrict(level) :
                LET looser == default_weather_minimums(l)
                IN  /\ looser.min_visibility_sm <= minimums.min_visibility_sm
                    /\ looser.max_wind_speed_kt >= minimums.max_wind_speed_kt
                    /\ CeilingFloor(looser) <= CeilingFloor(minimums)
                    /\ minimums.allow_imc => looser.allow_imc

\* an evaluation was given the StudentPilot row, whose ceiling floor is
\* compared with a lower one (PrivatePilot) and with an absent one
\* (InstrumentRated)
C20_Witness ==
    /\ Evaluated /\ DefaultMinimums
    /\ level = "StudentPilot"
    /\ IsSome(minimums.min_ceiling_ft)
    /\ \E l \in LessStrict(level) :
          /\ IsSome(default_weather_minimums(l).min_ceiling_ft)
          /\ CeilingFloor(default_weather_minimums(l)) < CeilingFloor(minimums)
    /\ \E l \in LessStrict(level) :
          /\ default_weather_minimums(l).min_ceiling_ft = None
          /\ default_weather_minimums(l).allow_imc

\* C23: with IMC disallowed by the minimums, a ceiling below 1000 ft or a
\* visibility below 3 mi gives unsafe with the IMC reason, the visibility
\* condition also when the sample reports no ceiling.
C23_ImcProxyRule ==
    (/\ Evaluated
     /\ ~minimums.allow_imc
     /\ \/ IsSome(weather.ceiling_ft) /\ Unwrap(weather.ceiling_ft) < 1000
        \/ weather.visibility_miles < 30) =>
        /\ ~Unwrap(safety).is_safe
        /\ Contains(Unwrap(Unwrap(safety).reason), PAT_IMC)

PastLimits(w, m) ==
    Cardinality({ f \in { "visibility", "wind", "ceiling" } :
        CASE f = "visibility" -> w.visibility_miles < m.min_visibility_sm
          [] f = "wind" -> w.wind_speed_knots > m.max_wind_speed_kt
          [] f = "ceiling" -> Unwrap(w.ceiling_ft) < Unwrap(m.min_ceiling_ft) })

\* how many of them differ from the limit of m
OffLimits(w, m) ==
    Cardinality({ f \in { "visibility", "wind", "ceiling" } :
        CASE f = "visibility" -> w.visibility_miles # m.min_visibility_sm
          [] f = "wind" -> w.wind_speed_knots # m.max_wind_speed_kt
          [] f = "ceiling" -> Unwrap(w.ceiling_ft) # Unwrap(m.min_ceiling_ft) })

\* C25: under the StudentPilot defaults (5 mi, 12 kt, 3000 ft) and the
\* PrivatePilot defaults (3 mi, 20 kt, 1000 ft), a sample with no
\* thunderstorms and no icing whose visibility, wind and ceiling all equal
\* the limits is safe, and one with two of them on the limit and the third
\* past it is unsafe.
C25_BoundaryValuesSafe ==
    (/\ Evaluated /\ DefaultMinimums
     /\ level \in { "StudentPilot", "PrivatePilot" }
     /\ ~weather.has_thunderstorms /\ ~weather.has_icing
     /\ IsSome(weather.ceiling_ft)) =>
        /\ OffLimits(weather, minimums) = 0 => Unwrap(safety).is_safe
        /\ (OffLimits(weather, minimums) = 1 /\ PastLimits(weather, minimums) = 1) =>
                ~Unwrap(safety).is_safe

\* the PrivatePilot defaults were given the sample 3.0 mi, 20.0 kt, 1000 ft,
\* which also sits on both thresholds of the IMC check, and judged it safe
C25_Witness ==
    /\ Evaluated /\ DefaultMinimums
    /\ level = "PrivatePilot"
    /\ weather = WeatherData(30, 200, Some(1000), FALSE, FALSE)
    /\ OffLimits(weather, minimums) = 0
    /\ Unwrap(safety).is_safe
\* index of the first occurrence of pat in s, 0 when there is none
FirstIndex(s, pat) ==
    LET hits == { i \in 1..(Len(s) - Len(pat) + 1) :
                    \A j \in 1..Len(pat) : s[i + j - 1] = pat[j] }
    IN  IF hits = { } THEN 0 ELSE CHOOSE i \in hits : \A k \in hits : i <= k

\* number of occurrences of pat in s
Occurrences(s, pat) ==
    Cardinality({ i \in 1..(Len(s) - Len(pat) + 1) :
                    \A j \in 1..Len(pat) : s[i + j - 1] = pat[j] })

\* The seven rules in evaluation order: whether the sample violates rule k,
\* stated on the sample and the minimums row.
RuleViolated(k, l, w, m) ==
    CASE k = 1 -> m.no_thunderstorms /\ w.has_thunderstorms
      [] k = 2 -> m.no_icing /\ w.has_icing
      [] k = 3 -> w.visibility_miles < m.min_visibility_sm
      [] k = 4 -> w.wind_speed_knots > m.max_wind_speed_kt
      [] k = 5 -> /\ m.min_ceiling_ft # None /\ w.ceiling_ft # None
                  /\ w.ceiling_ft[1] < m.min_ceiling_ft[1]
      [] k = 6 -> /\ l = "StudentPilot" /\ w.ceiling_ft # None
                  /\ w.ceiling_ft[1] < 3000
      [] k = 7 -> /\ ~m.allow_imc /\ w.ceiling_ft # None
                  /\ (w.ceiling_ft[1] < 1000 \/ w.visibility_miles < 30)

\* text that only rule k's message holds
RulePattern(k) ==
    << PAT_THUNDERSTORM, PAT_ICING, PAT_VISIBILITY, PAT_WIND, PAT_CEILING,
       PAT_STUDENT_FLOOR, PAT_IMC >>[k]

ViolatedRules(l, w, m) == { k \in 1..7 : RuleViolated(k, l, w, m) }

-----------------------------------------------------------------------------
(* Claims about the scheduler's jobs *)

\* the bookings table's status of the entry's booking when check_flight_safety
\* returned, or now if it is still running
StatusAfter(e) ==
    IF e.outcome = "running" THEN bookings[e.booking_id].status ELSE e.status_after

EventsAfter(e) ==
    IF e.outcome = "running" THEN Len(reschedule_events) ELSE e.events_after

PublishedAfter(e) ==
    IF e.outcome = "running" THEN Len(published) ELSE e.published_after

\* the safe half of C4: a booking whose weather evaluated safe keeps its
\* status, and no reschedule event or notification is produced for it
SafeLeavesAlone(e) ==
    e.evaluated = Some(TRUE) =>
        /\ e.outcome = "safe"
        /\ StatusAfter(e) = e.status_before
        /\ EventsAfter(e) = e.events_before
        /\ PublishedAfter(e) = e.published_before

Processed(e) == e.closed /\ ~e.failed

\* the body persisted exactly one alert, for the entry's booking
Persisted(e) ==
    /\ e.alerts_after = e.alerts_before + 1
    /\ weather_alerts[e.alerts_after].booking_id = e.booking_id

\* the body published exactly one alert notification, for the entry's booking
Published(e) ==
    /\ e.published_after = e.published_before + 1
    /\ published[e.published_after].type = "weather_alert"
    /\ published[e.published_after].booking_id = e.booking_id

\* C5: in the alert sweep, for every booking processed without error an alert
\* is persisted and an alert notification is published iff the classified
\* severity is not Clear; no persisted or published alert has severity Clear.
C5_AlertIffNotClear ==
    /\ \A i \in DOMAIN alertLog :
          LET e == alertLog[i]
          IN  Processed(e) =>
                /\ IsSome(e.graded)
                /\ IF Unwrap(e.graded) # "Clear"
                   THEN Persisted(e) /\ Published(e)
                   ELSE /\ e.alerts_after = e.alerts_before
                        /\ e.published_after = e.published_before
    /\ \A i \in DOMAIN weather_alerts :
          weather_alerts[i].severity # severity_to_string("Clear")
    /\ \A i \in DOMAIN published :
          published[i].type = "weather_alert" =>
              published[i].severity # severity_to_string("Clear")

\* one run of the sweep has processed a booking graded Clear, raising no
\* alert, and a booking graded Low, persisting and publishing its alert
C5_Witness ==
    \E i, j \in DOMAIN alertLog :
        /\ Processed(alertLog[i])
        /\ alertLog[i].graded = Some("Clear")
        /\ alertLog[i].alerts_after = alertLog[i].alerts_before
        /\ Processed(alertLog[j])
        /\ alertLog[j].graded = Some("Low")
        /\ Persisted(alertLog[j])
        /\ Published(alertLog[j])

\* C14: in both sweeps a failure on one booking (missing student, weather
\* fetch failure, persistence error) never keeps the remaining bookings of
\* the query from being processed in the same run: while a run is under way
\* every booking of the query is either taken (it has a history entry) or
\* still queued, and the run ends only with the queue empty and every entry
\* closed.
C14_PerBookingIsolation ==
    [][ /\ hourly.pc # "idle" =>
              /\ Len(hourlyLog') + Len(hourly'.queue)
                    = Len(hourlyLog) + Len(hourly.queue)
              /\ hourly'.pc = "idle" =>
                    /\ hourly.queue = << >>
                    /\ \A i \in DOMAIN hourlyLog : hourlyLog[i].outcome # "running"
        /\ alerting.pc # "idle" =>
              /\ Len(alertLog') + Len(alerting'.queue)
                    = Len(alertLog) + Len(alerting.queue)
              /\ alerting'.pc = "idle" =>
                    /\ alerting.queue = << >>
                    /\ \A i \in DOMAIN alertLog : alertLog[i].closed
      ]_vars

\* both sweeps have ended, each after a booking that failed and a later
\* booking that was processed to its end
C14_Witness ==
    /\ hourly.pc = "idle"
    /\ IsSome(hourly.summary)
    /\ Unwrap(hourly.summary).ok
    /\ Len(hourlyLog) = Unwrap(hourly.summary).value.total_checked
    /\ \E i, j \in DOMAIN hourlyLog :
          /\ i < j
          /\ hourlyLog[i].outcome = "error"
          /\ hourlyLog[j].outcome \in { "safe", "conflict" }
    /\ alerting.pc = "idle"
    /\ IsSome(alerting.returned)
    /\ Unwrap(alerting.returned).ok
    /\ \E i, j \in DOMAIN alertLog :
          /\ i < j
          /\ alertLog[i].failed
          /\ alertLog[i].graded = None
          /\ alertLog[j].closed
          /\ ~alertLog[j].failed
          /\ IsSome(alertLog[j].graded)

\* scores on both sides of 4.0, 6.0, 7.5 and 9.0, in score units
ScoreGrid ==
    { 0, 4 * ScoreUnit - 1, 4 * ScoreUnit, 6 * ScoreUnit - 1, 6 * ScoreUnit,
      (15 * ScoreUnit) \div 2 - 1, (15 * ScoreUnit) \div 2, 9 * ScoreUnit - 1,
      9 * ScoreUnit, 10 * ScoreUnit }

\* the classification as the specification words it
SeverityBand(s, w) ==
    CASE w.has_thunderstorms \/ w.visibility_miles < 10 -> "Severe"
      [] OTHER ->
            CASE s < 4 * ScoreUnit -> "Severe"
              [] 4 * ScoreUnit <= s /\ s < 6 * ScoreUnit -> "High"
              [] 6 * ScoreUnit <= s /\ 2 * s < 15 * ScoreUnit -> "Moderate"
              [] 15 * ScoreUnit <= 2 * s /\ s < 9 * ScoreUnit -> "Low"
              [] s >= 9 * ScoreUnit -> "Clear"

\* the sample the alert sweep has just graded
GradedSample ==
    Unwrap(alerting.location_cache[Unwrap(alerting.current).departure_location])

\* C22: determine_severity gives Severe whenever thunderstorms are present or
\* visibility is below 1 mi, whatever the score; otherwise Severe below 4.0,
\* High in [4.0, 6.0), Moderate in [6.0, 7.5), Low in [7.5, 9.0) and Clear from
\* 9.0.  Stated of the grade the sweep gave to the sample it scored, and of
\* the same sample with every score of the grid.
C22_SeverityClassification ==
    IsSome(alerting.grade) =>
        /\ Unwrap(alerting.grade).severity =
              SeverityBand(Unwrap(alerting.grade).points, GradedSample)
        /\ \A s \in ScoreGrid :
              determine_severity(s, GradedSample) = SeverityBand(s, GradedSample)

\* the sweep has graded a fog sample, visibility 0.5 mi with no thunderstorm,
\* whose score of 8.1 lies in the Low band: the grade is Severe
C22_Witness ==
    /\ IsSome(alerting.grade)
    /\ ~GradedSample.has_thunderstorms
    /\ GradedSample.visibility_miles = 5
    /\ Unwrap(alerting.grade).points >= (15 * ScoreUnit) \div 2
    /\ Unwrap(alerting.grade).points < 9 * ScoreUnit
    /\ Unwrap(alerting.grade).severity = "Severe"

\* C29: a booking whose status the hourly sweep set to Cancelled has, by the
\* end of its processing, a reschedule-event placeholder (new date = original
\* date = the booking's scheduled date) and a WEATHER_CONFLICT notification
\* published for it, also in executions where a persistence call fails.
C29_CancellationComplete ==
    \A i \in DOMAIN hourlyLog :
        LET e == hourlyLog[i]
        IN  (e.outcome # "running" /\ e.updated) =>
                /\ e.events_after = e.events_before + 1
                /\ reschedule_events[e.events_after].booking_id = e.booking_id
                /\ reschedule_events[e.events_after].new_date =
                      bookings[e.booking_id].scheduled_date
                /\ reschedule_events[e.events_after].original_date =
                      bookings[e.booking_id].scheduled_date
                /\ e.published_after = e.published_before + 1
                /\ published[e.published_after].type = "WEATHER_CONFLICT"
                /\ published[e.published_after].booking_id = e.booking_id

\* the history entries of one alert sweep for bookings departing from one
\* location
AtLocation(run, place) ==
    { i \in DOMAIN alertLog :
        /\ alertLog[i].sweep = run
        /\ bookings[alertLog[i].booking_id].departure_location = place }

\* a sweep does not start with samples of an earlier one: while a sweep is
\* under way the location cache holds, for each location, the sample of this
\* sweep's successful fetch there, and nothing where there was none
CacheIsOfThisSweep ==
    alerting.pc # "idle" =>
        \A place \in Location :
            LET fetched == { i \in AtLocation(alerting.runs, place) :
                                alertLog[i].called = "fetched" }
            IN  IF fetched = { }
                THEN alerting.location_cache[place] = None
                ELSE \A i \in fetched :
                        alerting.location_cache[place] = alertLog[i].used

\* every booking graded after the first successful fetch at its location, in
\* the same sweep, was graded on the sample of that fetch without a new call
LaterBookingsUseFirstSample ==
    \A i, j \in DOMAIN alertLog :
        (/\ i < j
         /\ j \in AtLocation(alertLog[i].sweep, 
                    bookings[alertLog[i].booking_id].departure_location)
         /\ alertLog[i].called = "fetched"
         /\ IsSome(alertLog[j].used)) =>
            /\ alertLog[j].called = "skipped"
            /\ alertLog[j].used = alertLog[i].used

\* C30 as stated: within one alert sweep the weather collaborator is called
\* at most once per location; later bookings at the location use the sample
\* fetched for the first; the next sweep starts with an empty location cache.
C30_OneCallPerLocation ==
    /\ \A run \in 1..alerting.runs, place \in Location :
          Cardinality({ i \in AtLocation(run, place) :
                          alertLog[i].called # "skipped" }) <= 1
    /\ LaterBookingsUseFirstSample
    /\ CacheIsOfThisSweep

\* C30, amended: within one alert sweep the weather collaborator answers at
\* most once per location: a fetch that fails caches nothing, so the next
\* booking at that location calls it again; after the first fetch that
\* succeeds every later booking at that location in the sweep uses its
\* sample; the next sweep starts with an empty location cache.
C30_OneFetchedSamplePerLocation ==
    /\ \A run \in 1..alerting.runs, place \in Location :
          /\ Cardinality({ i \in AtLocation(run, place) :
                            alertLog[i].called = "fetched" }) <= 1
          /\ \A i, j \in AtLocation(run, place) :
                (i < j /\ alertLog[j].called # "skipped") =>
                    alertLog[i].called # "fetched"
    /\ LaterBookingsUseFirstSample
    /\ CacheIsOfThisSweep

\* in the first sweep b1 fetched for its location and b2, departing from the
\* same one, was graded on b1's sample; the second sweep fetched there again
C30_Witness ==
    \E i, j, k \in DOMAIN alertLog :
        /\ alertLog[i].sweep = 1 /\ alertLog[i].booking_id = "b1"
        /\ alertLog[i].called = "fetched"
        /\ alertLog[j].sweep = 1 /\ alertLog[j].booking_id = "b2"
        /\ alertLog[j].called = "skipped"
        /\ alertLog[j].used = alertLog[i].used
        /\ alertLog[k].sweep = 2 /\ alertLog[k].booking_id = "b1"
        /\ alertLog[k].called = "fetched"
        /\ alertLog[k].used # alertLog[i].used
-----------------------------------------------------------------------------
(* Claims about the weather fetch and the notification channel *)

\* the attempts of the fetch that failed
FailedAttempts == { i \in DOMAIN fetch.calls : ~fetch.calls[i].ok }

\* C15: fetch_current_weather makes at most 3 attempts, returns the first
\* success without a further attempt, waits 100 ms after the first failure
\* and 200 ms after the second, does not wait after the third, and returns
\* the last error only after all 3 attempts have failed.
C15_BoundedRetryWithBackoff ==
    /\ Len(fetch.calls) <= 3
    /\ \A i \in DOMAIN fetch.calls :
          fetch.calls[i].ok =>
              /\ i = Len(fetch.calls)
              /\ fetch.pc = "done"
              /\ fetch.answer = Some(fetch.calls[i])
    /\ fetch.sleeps = SubSeq(<< 100, 200 >>, 1, Min(Cardinality(FailedAttempts), 2))
    /\ (IsSome(fetch.answer) /\ ~Unwrap(fetch.answer).ok) =>
          /\ FailedAttempts = 1..3
          /\ Unwrap(fetch.answer) = fetch.calls[3]
    /\ Cardinality(FailedAttempts) = 3 =>
          /\ fetch.pc = "done"
          /\ IsSome(fetch.answer)

\* three attempts have failed, each with another error; the fetch has slept
\* twice and has returned the third error
C15_Witness ==
    /\ fetch.pc = "done"
    /\ Len(fetch.calls) = 3
    /\ FailedAttempts = 1..3
    /\ fetch.calls[1] # fetch.calls[2]
    /\ fetch.calls[2] # fetch.calls[3]
    /\ fetch.calls[1] # fetch.calls[3]
    /\ fetch.sleeps = << 100, 200 >>
    /\ fetch.answer = Some(fetch.calls[3])

\* C16: a subscriber receives every message published while it is connected,
\* in publish order, as long as it keeps up; one that falls more than the
\* buffer capacity behind misses messages, but that is not an error: it
\* stays subscribed and goes on receiving what is published afterwards.
C16_LaggingSubscriberStaysSubscribed ==
    /\ socket.conn = "open" =>
          socket.delivered = SubSeq(published, socket.cursor - Len(socket.delivered),
                                    socket.cursor - 1)
    /\ socket.conn = "ended" => socket.break_cause = Some("client")

-----------------------------------------------------------------------------
(* Properties of reschedule_booking, checked under SpecPatch *)

\* reschedule_booking has returned Ok(Json(..))
PatchSucceeded ==
    /\ patch.pc = "done"
    /\ IsSome(patch.answer)
    /\ Unwrap(patch.answer).ok

\* C21: after reschedule_booking returns success, the stored booking has
\* status Rescheduled and the requested new date, and the returned booking
\* shows both.
C21_RescheduleStoresNewDate ==
    PatchSucceeded =>
        LET stored == bookings[Unwrap(patch.id)]
            returned == Unwrap(patch.answer).value
        IN  /\ stored.status = "Rescheduled"
            /\ stored.scheduled_date = Unwrap(patch.new_scheduled_date)
            /\ returned.status = "Rescheduled"
            /\ returned.scheduled_date = Unwrap(patch.new_scheduled_date)
-----------------------------------------------------------------------------
(* Claims about the suggestion generator and its cache *)

\* the suggestion call has returned
Suggested == IsSome(response)

\* C2: generate_reschedule_options returns exactly 3 options on every path
\* (cache hit, successful external generation, fallback), for every forecast
\* length including the empty forecast.
C2_ExactlyThreeOnEveryPath ==
    Suggested =>
        /\ Unwrap(response).result.ok
        /\ Len(Unwrap(response).result.value) = OPTIONS_WANTED

\* C3: generate_fallback_options never fails and returns exactly 3 options,
\* for every training level and every forecast, whatever its length and its
\* mix of safe and unsafe samples.
C3_FallbackExactlyThree ==
    (Suggested /\ Unwrap(response).path = "fallback") =>
        /\ Unwrap(response).result.ok
        /\ Len(Unwrap(response).result.value) = OPTIONS_WANTED

\* the fallback has answered a forecast longer than 3 that mixes samples safe
\* and unsafe for the student
C3_Witness ==
    /\ Suggested
    /\ Unwrap(response).path = "fallback"
    /\ LET r == Unwrap(request)
           safe(i) == is_flight_safe(r.student.training_level, r.weather_forecast[i],
                          default_weather_minimums(r.student.training_level)).is_safe
       IN  /\ Len(r.weather_forecast) > OPTIONS_WANTED
           /\ \E i \in DOMAIN r.weather_forecast : safe(i)
           /\ \E i \in DOMAIN r.weather_forecast : ~safe(i)

\* C6: after set(K, R), a get(K) issued less than 6 hours after the write,
\* with no later set on K, returns R unchanged; a get(K) issued 6 hours or
\* more after the write returns none.
C6_RoundTripAndExpiry ==
    IsSome(lastGet) =>
        LET k == Unwrap(lastGet).key
            got == Unwrap(lastGet).result
        IN  IsSome(lastSet[k]) =>
                IF now - Unwrap(lastSet[k])[2] < TTL_HOURS * TicksPerHour
                THEN got = Some(Unwrap(lastSet[k])[1])
                ELSE got = None

\* a get exactly 6 hours after the write of a non-empty response has
\* returned none
C6_Witness ==
    /\ IsSome(lastGet)
    /\ IsSome(lastSet[Unwrap(lastGet).key])
    /\ Unwrap(lastSet[Unwrap(lastGet).key])[1].options # << >>
    /\ now - Unwrap(lastSet[Unwrap(lastGet).key])[2] = TTL_HOURS * TicksPerHour
    /\ Unwrap(lastGet).result = None

\* generate_reschedule_options has just returned: its first step, the cache
\* lookup, is the last lookup made
Generated == Suggested /\ IsSome(lastGet)

\* the generation attempt of the request fails or yields fewer than 3 options
GenerationFailed ==
    \/ Unwrap(request).reply.kind # "parsed"
    \/ Unwrap(request).reply.count < OPTIONS_WANTED

\* C11: whatever way the generation attempt fails (transport error,
\* non-success status, unparseable response, fewer than 3 options) and
\* whatever the training level, generate_reschedule_options returns a
\* successful result taken from the fallback, never an error.
C11_GenerationFailureNeverSurfaces ==
    (Generated /\ GenerationFailed /\ Unwrap(lastGet).result = None) =>
        /\ Unwrap(response).result.ok
        /\ Unwrap(response).path = "fallback"
        /\ Len(Unwrap(response).result.value) = OPTIONS_WANTED

\* a generation attempt that ended in a non-success status was answered for
\* a PrivatePilot, or one that parsed only 2 options for an InstrumentRated
\* pilot
C11_Witness ==
    /\ Generated
    /\ Unwrap(response).result.ok
    /\ \/ /\ Unwrap(request).reply.kind = "bad_status"
          /\ Unwrap(request).student.training_level = "PrivatePilot"
       \/ /\ Unwrap(request).reply = [ kind |-> "parsed", count |-> 2 ]
          /\ Unwrap(request).student.training_level = "InstrumentRated"

\* C12: the cache is written only when external generation succeeded with
\* at least 3 options: an entry that appears or changes is the one of the
\* call just answered from the generation service and holds its 3 or more
\* options; a call that ends in the fallback leaves the cache as it was,
\* and what is served from the cache is never a fallback result.
C12_CacheWrittenOnlyOnSuccess ==
    [][ /\ \A k \in CacheKeys :
             (cache'[k] # cache[k] /\ IsSome(cache'[k])) =>
                 /\ Generated'
                 /\ Unwrap(response').path = "ai"
                 /\ k = cache_key(Unwrap(request').booking)
                 /\ ~GenerationFailed'
                 /\ Unwrap(cache'[k])[1].options = Unwrap(response').result.value
                 /\ Len(Unwrap(cache'[k])[1].options) >= OPTIONS_WANTED
        /\ (Generated' /\ Unwrap(response').path = "fallback") => cache' = cache
        /\ (Generated' /\ Unwrap(response').path = "cache") =>
                 \E n \in OPTIONS_WANTED..MaxAiOptions :
                    Unwrap(response').result.value = AiOptions(n)
      ]_vars

\* a call has ended in the fallback while the cache held an expired entry
\* for its key, and the entry is still the one written by the earlier call
C12_Witness ==
    /\ Generated
    /\ Unwrap(response).path = "fallback"
    /\ IsSome(cache[Unwrap(lastGet).key])
    /\ cache[Unwrap(lastGet).key] = lastSet[Unwrap(lastGet).key]
    /\ Unwrap(lastGet).result = None

\* C13: when a call starts with a non-expired entry of at least 3 options
\* under its key (booking id and scheduled timestamp), it returns that
\* entry's options from the cache path, which reaches neither the generation
\* service nor the fallback, and leaves the cache as it was.
C13_CacheShortCircuit ==
    [][ Generated' =>
          LET k == cache_key(Unwrap(request').booking)
          IN  (/\ IsSome(cache[k])
               /\ now - Unwrap(cache[k])[2] < TTL_HOURS * TicksPerHour
               /\ Len(Unwrap(cache[k])[1].options) >= OPTIONS_WANTED) =>
                  /\ Unwrap(response').path = "cache"
                  /\ Unwrap(response').result = Ok(Unwrap(cache[k])[1].options)
                  /\ cache' = cache
      ]_vars

\* a call was answered from the cache although its generation attempt would
\* have succeeded with a different number of options
C13_Witness ==
    /\ Generated
    /\ Unwrap(response).path = "cache"
    /\ ~GenerationFailed
    /\ Len(Unwrap(response).result.value) # Unwrap(request).reply.count

\* the request's forecast is one sample, unsafe for the student's level under
\* that level's default minimums
OneUnsafeSample ==
    LET r == Unwrap(request)
    IN  /\ Len(r.weather_forecast) = 1
        /\ ~is_flight_safe(r.student.training_level, r.weather_forecast[1],
                 default_weather_minimums(r.student.training_level)).is_safe

\* C19: a call answered by the fallback whose forecast is exactly one sample,
\* unsafe for the student's level, returns 3 options: first that sample, at
\* its own time, with the reason "Marginal conditions: <conditions>" and the
\* scorer's value; then 2 placeholders, each with score 5.0 and
\* instructor_available = false.
C19_OneUnsafeSampleFallback ==
    (Suggested /\ Unwrap(response).path = "fallback" /\ OneUnsafeSample) =>
        LET r == Unwrap(request)
            sample == r.weather_forecast[1]
            options == Unwrap(response).result.value
        IN  /\ Unwrap(response).result.ok
            /\ Len(options) = 3
            /\ options[1].date_time = sample.date_time
            /\ options[1].reason = OptionText.marginal \o sample.conditions
            /\ options[1].weather_score =
                  calculate_weather_score(r.student.training_level, sample)
            /\ \A i \in 2..3 :
                  /\ options[i].reason = OptionText.contact_instructor
                  /\ options[i].weather_score = 5 * ScoreUnit
                  /\ ~options[i].instructor_available

\* a generation attempt that failed in transport was answered by the fallback
\* for a StudentPilot whose forecast is one windy sample: safe for a
\* PrivatePilot, unsafe for the student
C19_Witness ==
    /\ Generated
    /\ Unwrap(response).path = "fallback"
    /\ OneUnsafeSample
    /\ Unwrap(request).reply.kind = "transport_error"
    /\ Unwrap(request).student.training_level = "StudentPilot"
    /\ Unwrap(request).weather_forecast = ForecastOf(<< Samples.windy >>)
    /\ Len(Unwrap(response).result.value) = 3

\* the options of the result that were made from a forecast sample
FromForecast(options) ==
    { i \in DOMAIN options : options[i].reason # OptionText.contact_instructor }

\* C26: in a fallback result no forecast sample is used for more than one
\* option, and the 3 options are distinct.
C26_FallbackDistinct ==
    (Suggested /\ Unwrap(response).path = "fallback") =>
        LET options == Unwrap(response).result.value
        IN  /\ \A i, j \in FromForecast(options) :
                  i # j => options[i].date_time # options[j].date_time
            /\ \A i, j \in DOMAIN options : i # j => options[i] # options[j]

\* the number of options of a fallback result made from forecast samples:
\* the two passes over the forecast fill min(3, length of the forecast) slots
ForecastSlots == Min(Len(Unwrap(request).weather_forecast), 3)

\* every placeholder has the contact-instructor reason, score 5.0 and
\* instructor_available = false, and the options before them are no
\* placeholders
PlaceholdersWellFormed(options) ==
    /\ \A p \in (ForecastSlots + 1)..3 :
          /\ options[p].reason = OptionText.contact_instructor
          /\ options[p].weather_score = 5 * ScoreUnit
          /\ ~options[p].instructor_available
    /\ \A p \in 1..ForecastSlots :
          /\ options[p].reason # OptionText.contact_instructor
          /\ options[p].instructor_available

\* C27 as stated: the first placeholder added is dated original_date + 1 day,
\* the second + 2 days, the third + 3 days, and each has the
\* contact-instructor reason, score 5.0 and instructor_available = false.
C27_PlaceholdersCountedFromOne ==
    (Suggested /\ Unwrap(response).path = "fallback") =>
        LET options == Unwrap(response).result.value
        IN  /\ PlaceholdersWellFormed(options)
            /\ \A p \in (ForecastSlots + 1)..3 :
                  options[p].date_time =
                      Unwrap(request).booking.scheduled_date
                        + (p - ForecastSlots) * HoursPerDay

\* C27, amended: a placeholder is dated original_date + N days where N is its
\* position among the 3 options (the number of options collected before it
\* plus 1), so N runs 1, 2, 3 only when the forecast gave no option; each
\* placeholder has the contact-instructor reason, score 5.0 and
\* instructor_available = false.
C27_PlaceholdersDatedByPosition ==
    (Suggested /\ Unwrap(response).path = "fallback") =>
        LET options == Unwrap(response).result.value
        IN  /\ PlaceholdersWellFormed(options)
            /\ \A p \in (ForecastSlots + 1)..3 :
                  options[p].date_time =
                      Unwrap(request).booking.scheduled_date + p * HoursPerDay

\* the fallback has answered a forecast of 2 samples: its one placeholder is
\* the third option, dated 3 days after the booking
C27_Witness ==
    /\ Suggested
    /\ Unwrap(response).path = "fallback"
    /\ Len(Unwrap(request).weather_forecast) = 2
    /\ LET options == Unwrap(response).result.value
       IN  /\ options[3].reason = OptionText.contact_instructor
           /\ options[2].reason # OptionText.contact_instructor
           /\ options[3].date_time =
                 Unwrap(request).booking.scheduled_date + 3 * HoursPerDay

\* the positions among the first 14 of the request's forecast whose sample
\* is safe for the student's level under that level's default minimums
SafePositions ==
    LET r == Unwrap(request)
    IN  { i \in 1..Min(Len(r.weather_forecast), 14) :
            is_flight_safe(r.student.training_level, r.weather_forecast[i],
                default_weather_minimums(r.student.training_level)).is_safe }

\* the j-th smallest element of a set of positions
Nth(positions, j) ==
    CHOOSE i \in positions : Cardinality({ x \in positions : x <= i }) = j

\* the option is a good-weather option: its reason starts with "Good weather
\* conditions: "
IsGoodWeather(option) ==
    /\ Len(option.reason) >= Len(OptionText.good_weather)
    /\ SubSeq(option.reason, 1, Len(OptionText.good_weather)) = OptionText.good_weather

\* C28: with k samples among the first 14 of the forecast safe for the
\* student's level, the good-weather options of a fallback result are its
\* first min(3, k) options and are made, in forecast order, from the first
\* min(3, k) of those samples; no other option is a good-weather option, so
\* no sample at position 15 or later and no unsafe sample is returned as one.
C28_GoodWeatherPass ==
    (Suggested /\ Unwrap(response).path = "fallback") =>
        LET r == Unwrap(request)
            options == Unwrap(response).result.value
            good == Min(3, Cardinality(SafePositions))
        IN  /\ \A j \in 1..good :
                  /\ IsGoodWeather(options[j])
                  /\ options[j].date_time =
                        r.weather_forecast[Nth(SafePositions, j)].date_time
                  /\ options[j].weather_score =
                        calculate_weather_score(r.student.training_level,
                            r.weather_forecast[Nth(SafePositions, j)])
            /\ \A j \in (good + 1)..Len(options) : ~IsGoodWeather(options[j])

\* the fallback has answered a 16-sample forecast whose only safe samples are
\* at positions 14, 15 and 16: one good-weather option, from position 14
C28_Witness ==
    /\ Suggested
    /\ Unwrap(response).path = "fallback"
    /\ Len(Unwrap(request).weather_forecast) = 16
    /\ SafePositions = { 14 }
    /\ IsGoodWeather(Unwrap(response).result.value[1])
    /\ ~IsGoodWeather(Unwrap(response).result.value[2])
-----------------------------------------------------------------------------
(* Claims about cache eviction *)

\* the last lookup was made on a key whose last write is 6 hours old or older
ExpiredLookup ==
    /\ IsSome(lastGet)
    /\ IsSome(lastSet[Unwrap(lastGet).key])
    /\ now - Unwrap(lastSet[Unwrap(lastGet).key])[2] >= TTL_HOURS * TicksPerHour

\* C31: after AiCache::get is called for a key whose entry is 6 hours old
\* or older, the call returns none and the expired entry is no longer stored
\* in the cache.
C31_LazyEvictionOnRead ==
    ExpiredLookup =>
        /\ Unwrap(lastGet).result = None
        /\ cache[Unwrap(lastGet).key] = None

\* the hourly cleanup task has just run clear_expired
Swept == cleanup'.swept_at # cleanup.swept_at

\* C32: clear_expired removes exactly the entries that get would treat as
\* expired at that moment (age of 6 hours or more) and leaves every other
\* entry, with its response and creation time, unchanged; the hourly cleanup
\* task applies it to the same cache instance the suggestion generator reads
\* and writes.
C32_SweepRemovesExactlyExpired ==
    [][ Swept =>
          \A k \in CacheKeys :
              cache'[k] = IF AiCacheGet(cache, k, now) = None THEN None ELSE cache[k]
      ]_vars

-----------------------------------------------------------------------------
(* Claims about the scheduler's runs *)

\* run k of the hourly job has returned and its query failed or a booking of a
\* run so far failed
HourlyRunFailed(k) ==
    /\ IsSome(hourly.summary)
    /\ hourly.runs = k
    /\ \/ ~Unwrap(hourly.summary).ok
       \/ \E i \in DOMAIN hourlyLog : hourlyLog[i].outcome = "error"

\* run k of the alert job has returned and its query failed or one of its
\* bookings failed
AlertRunFailed(k) ==
    /\ IsSome(alerting.returned)
    /\ alerting.runs = k
    /\ \/ ~Unwrap(alerting.returned).ok
       \/ \E i \in DOMAIN alertLog : alertLog[i].sweep = k /\ alertLog[i].failed

\* C33: when a run of the hourly sweep or of the alert sweep returns an
\* error, or some of its bookings fail, both jobs keep being triggered at
\* their intervals; every later trigger starts a new run.
C33_FailedRunDoesNotStopSchedule ==
    /\ \A k \in 1..MaxHourlyRuns : HourlyRunFailed(k) ~> (hourly.runs > k)
    /\ \A k \in 1..MaxAlertRuns : AlertRunFailed(k) ~> (alerting.runs > k)

\* both jobs are in the run after one that failed: the first booking of the
\* hourly job failed, an alert booking of the first run failed
C33_Witness ==
    /\ hourly.runs = MaxHourlyRuns + 1
    /\ alerting.runs = MaxAlertRuns + 1
    /\ hourlyLog # << >>
    /\ hourlyLog[1].outcome = "error"
    /\ \E i \in DOMAIN alertLog : alertLog[i].sweep = 1 /\ alertLog[i].failed

\* the WEATHER_CONFLICT notifications published for booking b
ConflictsPublished(b) ==
    { i \in DOMAIN published :
        published[i].type = "WEATHER_CONFLICT" /\ published[i].booking_id = b }

\* the WEATHER_CONFLICT notifications published while the entry's booking was
\* being processed
EntryConflicts(e) ==
    { n \in ConflictsPublished(e.booking_id) :
        /\ n > e.published_before
        /\ e.outcome # "running" => n <= e.published_after }

\* a placeholder event for the entry's booking was inserted while it was
\* being processed
PlaceholderInserted(e) ==
    \E k \in DOMAIN reschedule_events :
        /\ k > e.events_before
        /\ e.outcome # "running" => k <= e.events_after
        /\ reschedule_events[k] = SystemRescheduleEvent(bookings[e.booking_id])

\* C34: in the hourly sweep a WEATHER_CONFLICT notification for a booking is
\* published only after the weather for that booking was fetched and
\* evaluated unsafe, the status update to Cancelled succeeded and the
\* reschedule-event placeholder insert succeeded; no notification is
\* published for a booking evaluated safe or whose processing failed before
\* the publish step.
C34_NotifyAfterMutation ==
    /\ \A n \in DOMAIN published :
            published[n].type = "WEATHER_CONFLICT" =>
                \E i \in DOMAIN hourlyLog : n \in EntryConflicts(hourlyLog[i])
    /\ \A i \in DOMAIN hourlyLog :
          LET e == hourlyLog[i]
          IN  /\ EntryConflicts(e) # { } =>
                    /\ e.evaluated = Some(FALSE)
                    /\ e.updated
                    /\ bookings[e.booking_id].status = "Cancelled"
                    /\ PlaceholderInserted(e)
              /\ e.outcome \in { "safe", "error" } =>
                    /\ EntryConflicts(e) = { }
                    /\ e.published_after = e.published_before

\* one run has published the notification of a cancelled booking, has left a
\* safe booking alone and has failed on a third after its status update
C34_Witness ==
    \E i, j, k \in DOMAIN hourlyLog :
        /\ hourlyLog[i].outcome = "conflict"
        /\ ConflictsPublished(hourlyLog[i].booking_id) # { }
        /\ hourlyLog[j].outcome = "safe"
        /\ hourlyLog[k].outcome = "error"
        /\ hourlyLog[k].updated

\* the INSERT of the alert sweep has just failed
PersistFailed ==
    /\ alerting.pc = "persist"
    /\ alerting' # alerting
    /\ weather_alerts' = weather_alerts

\* C35: in the five-minute sweep an alert notification is published only
\* after its Alert record was successfully persisted; when persisting fails,
\* no notification is published for that booking in that run and the sweep
\* moves on to the next booking.
C35_PersistBeforePublish ==
    [][ /\ published' # published =>
              /\ alerting.pc = "publish"
              /\ Len(weather_alerts) > alertLog[Len(alertLog)].alerts_before
              /\ weather_alerts[Len(weather_alerts)] = published'[Len(published')]
              /\ published'[Len(published')].booking_id = Unwrap(alerting.current).id
        /\ PersistFailed =>
              /\ published' = published
              /\ alerting'.pc = "next"
              /\ alerting'.queue = alerting.queue
              /\ alertLog'[Len(alertLog')].closed
              /\ alertLog'[Len(alertLog')].published_after
                    = alertLog[Len(alertLog)].published_before
        /\ \A i \in DOMAIN alertLog' :
              (alertLog'[i].closed /\ alertLog'[i].alerts_after = alertLog'[i].alerts_before)
                  => alertLog'[i].published_after = alertLog'[i].published_before
      ]_vars

\* one sweep has failed to persist the alert of a booking, has published
\* nothing for it, and has persisted and published the alert of a later one
C35_Witness ==
    \E i, j \in DOMAIN alertLog :
        /\ i < j
        /\ alertLog[i].sweep = alertLog[j].sweep
        /\ IsSome(alertLog[i].graded)
        /\ alertLog[i].failed
        /\ alertLog[i].alerts_after = alertLog[i].alerts_before
        /\ alertLog[i].published_after = alertLog[i].published_before
        /\ Persisted(alertLog[j])
        /\ Published(alertLog[j])

\* C36: the hourly sweep only ever changes a booking from Scheduled to
\* Cancelled: under any interleaving of the sweep with a user reschedule or
\* an external completion, a booking whose status is Rescheduled, Completed
\* or Cancelled at the moment of the sweep's status update is not overwritten
\* to Cancelled.
C36_OnlyScheduledIsCancelled ==
    [][ \A b \in DOMAIN bookings :
            (bookings'[b].status = "Cancelled" /\ bookings[b].status # "Cancelled")
                => bookings[b].status = "Scheduled"
      ]_vars

\* the placeholder events the hourly sweep stored for booking b
PlaceholdersStored(b) ==
    { k \in DOMAIN reschedule_events :
        /\ reschedule_events[k].booking_id = b
        /\ reschedule_events[k].suggested_by = "SYSTEM" }

\* C37: across any sequence of hourly sweep runs, including runs that overlap
\* in time, each booking gets at most one reschedule-event placeholder and at
\* most one WEATHER_CONFLICT notification, provided nothing sets its status
\* back to Scheduled after the cancellation.
C37_AtMostOneCancellation ==
    \A b \in DOMAIN bookings :
        /\ Cardinality(PlaceholdersStored(b)) <= 1
        /\ Cardinality(ConflictsPublished(b)) <= 1

-----------------------------------------------------------------------------
(* Claims relating the evaluator and the alert classification *)

\* the sample was judged against the default minimums of its level and scored
JudgedAndScored ==
    /\ IsSome(safety)
    /\ IsSome(score)
    /\ minimums = default_weather_minimums(level)

\* C38: for every training level with its default minimums and every weather
\* sample, if is_flight_safe judges the sample unsafe then the alert
\* classification of the same sample for that level (calculate_weather_score
\* followed by determine_severity) is not Clear.
C38_UnsafeIsNeverClear ==
    (JudgedAndScored /\ ~Unwrap(safety).is_safe) =>
        determine_severity(Unwrap(score), weather) # "Clear"

\* C39: total_checked equals the number of bookings returned by the sweep's
\* query, conflicts_found equals the number of bookings whose status this
\* run set to Cancelled, and conflicts_found <= total_checked, in every run
\* including runs where some bookings fail.
C39_SummaryCounts ==
    (IsSome(hourly.summary) /\ Unwrap(hourly.summary).ok) =>
        LET summary == Unwrap(hourly.summary).value
        IN  /\ summary.total_checked = Len(hourlyLog)
            /\ summary.conflicts_found =
                  Cardinality({ i \in DOMAIN hourlyLog : hourlyLog[i].updated })
            /\ summary.conflicts_found <= summary.total_checked

\* C40: once a booking's status is Cancelled, no weather alert is persisted or
\* published for it afterwards, under any interleaving of the hourly conflict
\* sweep and the five-minute alert sweep.
C40_NoAlertOnceCancelled ==
    [][ /\ weather_alerts' # weather_alerts =>
              bookings[weather_alerts'[Len(weather_alerts')].booking_id].status
                  # "Cancelled"
        /\ (/\ published' # published
            /\ published'[Len(published')].type = "weather_alert") =>
              bookings[published'[Len(published')].booking_id].status # "Cancelled"
      ]_vars

=============================================================================
